---- MODULE Spec2Model ----
(***************************************************************************)
(* The weather API handler (src/api_handler/app.py): the rate limiter, the *)
(* per-city fetch, the persistence layer, the fan-out orchestrator and the *)
(* recent-batches buffer, as a state machine of threads.                   *)
(*                                                                         *)
(* A nullable value (Python None, SQL NULL, an absent dict key read with   *)
(* .get) is the empty tuple Null and a present value v is <<v>>.  A Python *)
(* dict is a record whose DOMAIN is the dict's key set.  Times are in      *)
(* milliseconds.                                                           *)
(***************************************************************************)
EXTENDS Integers, Sequences, FiniteSets, TLC

VARIABLES
    clock,              \* time.time(), in ms
    last_request_time,  \* global last_request_time
    request_lock,       \* holder of request_lock: Null or <<task>>
    grant_log,          \* history: the values assigned to last_request_time
    recent_requests,    \* the deque of batch records
    locations,          \* rows of table locations
    weather,            \* rows of table weather
    locations_id_seq,   \* SERIAL sequence of locations.id
    weather_id_seq,     \* SERIAL sequence of weather.id
    task,               \* the fetch tasks (futures), by <<batch, index>>
    batch,              \* the process_weather_request calls
    uuid_seq,           \* number of uuid4 values drawn
    reply               \* the last answer of a query operation

vars == <<clock, last_request_time, request_lock, grant_log, recent_requests,
          locations, weather, locations_id_seq, weather_id_seq, task, batch,
          uuid_seq, reply>>

rl_vars == <<clock, last_request_time, request_lock, grant_log>>
db_vars == <<locations, weather, locations_id_seq, weather_id_seq>>

Null == <<>>
Some(v) == <<v>>
EmptyDict == <<>>

----------------------------------------------------------------------------
(* Bounds of the model and constants of the program *)

MaxBatches == 2
MaxRingBatches == 102
MaxTime == 1150
TickMs == 50
Epoch == 1000

MIN_REQUEST_INTERVAL == 100
MAX_CONCURRENT_REQUESTS == 2
RECENT_MAXLEN == 100

Cities == {"London", "Paris", "NotACityXYZ123"}
KnownCities == {"London", "Paris"}

Slots == 1..MaxBatches
MaxCities == 3
Indexes == 1..MaxCities
Tasks == Slots \X Indexes

----------------------------------------------------------------------------
(* The provider: what one GET of current.json can come back with *)

Get(d, k) == IF k \in DOMAIN d THEN d[k] ELSE Null

Country(name) == IF name = "Paris" THEN "France" ELSE "United Kingdom"

LocationBlock(name, region, lt) ==
    [name |-> Some(name), region |-> region, country |-> Some(Country(name)),
     lat |-> Some(51), lon |-> Some(0), tz_id |-> Some(<<"Europe", name>>),
     localtime_epoch |-> Some(lt), localtime_string |-> Some(<<"local", lt>>)]

CurrentBlock(e, temp) ==
    [last_updated_epoch |-> Some(e), last_updated |-> Some(<<"at", e>>),
     temp_c |-> Some(temp), humidity |-> Some(80), uv |-> Null,
     condition |-> [text |-> Some("Sunny"), code |-> Some(1000)]]

Payload(name, region, e, temp) ==
    [location |-> LocationBlock(name, region, e), current |-> CurrentBlock(e, temp)]

Region(city) == IF city = "Paris" THEN Null ELSE Some("City of London")

ValidBodies(city) ==
    {Payload(city, Region(city), 100, 15), Payload(city, Region(city), 200, 0)}

ErrorObject == [code |-> Some(1006), message |-> Some("No matching location found.")]

MalformedBodies(city) ==
    {[location |-> LocationBlock(city, Region(city), 100)],
     [current |-> CurrentBlock(100, 15)]}

\* a body holding location, current and the provider's error object
TaggedBodies(city) ==
    {[location |-> LocationBlock(city, Region(city), 100),
      current |-> CurrentBlock(100, 15), error |-> ErrorObject]}

NoBody == [error |-> ErrorObject]

\* a body that response.json() does not turn into a dict: a JSON array, a JSON
\* string (as its words), a JSON number or null, and a body that is not JSON
JsonArray(items) == [json_array |-> items]
JsonString(words) == [json_string |-> words]
JsonScalar(v) == [json_scalar |-> v]
NotJson == [not_json |-> "<html>"]

JsonKind(data) ==
    IF "json_array" \in DOMAIN data THEN "array"
    ELSE IF "json_string" \in DOMAIN data THEN "string"
    ELSE IF "json_scalar" \in DOMAIN data THEN "scalar"
    ELSE IF "not_json" \in DOMAIN data THEN "not_json"
    ELSE "object"

\* Python's `key in data` for a dict (a key), a list (an element) and a str
\* (a substring)
Contains(data, key) ==
    IF JsonKind(data) = "array"
    THEN \E i \in 1..Len(data.json_array) : data.json_array[i] = key
    ELSE IF JsonKind(data) = "string"
    THEN \E i \in 1..Len(data.json_string) : data.json_string[i] = key
    ELSE key \in DOMAIN data

OddBodies ==
    {JsonArray(<<"location">>), JsonArray(<<"location", "current">>),
     JsonArray(<<"location", "current", "error">>),
     JsonString(<<"location", "current">>), JsonScalar(7), NotJson}

Raised(e) == [exc |-> e, status |-> 0, body |-> NoBody]
Answer(s, b) == [exc |-> "none", status |-> s, body |-> b]

ErrorStatuses == {400, 401, 403, 404, 500}

ProviderResponses(city) ==
    IF city \in KnownCities
    THEN {Raised("Timeout"), Raised("ConnectionError")}
         \cup {Answer(s, NoBody) : s \in ErrorStatuses}
         \cup {Answer(200, b) : b \in ValidBodies(city) \cup MalformedBodies(city)
                                         \cup TaggedBodies(city)}
    ELSE {Answer(400, NoBody)}

\* every behaviour of the provider call: ProviderResponses, and a successful
\* status with a body that is not a JSON object
AllResponses(city) ==
    ProviderResponses(city) \cup {Answer(200, b) : b \in OddBodies}

\* Response.raise_for_status: HTTPError for a 4xx or 5xx status
RaisesForStatus(resp) == resp.status >= 400 /\ resp.status < 600

----------------------------------------------------------------------------
(* Persistence layer: class DatabaseManager *)

\* SQL's = : never true of a NULL
SqlEq(a, b) == a # Null /\ b # Null /\ a = b

\* SELECT id FROM locations WHERE name = %s AND country = %s AND region = %s
SelectLocation(locs, d) ==
    {r \in locs : /\ SqlEq(r.name, Get(d, "name"))
                  /\ SqlEq(r.country, Get(d, "country"))
                  /\ SqlEq(r.region, Get(d, "region"))}

\* UPDATE locations SET lat, lon, tz_id, localtime_epoch, localtime_string, updated_at
UpdateLocation(r, d, now) ==
    [r EXCEPT !.lat = Get(d, "lat"), !.lon = Get(d, "lon"), !.tz_id = Get(d, "tz_id"),
              !.localtime_epoch = Get(d, "localtime_epoch"),
              !.localtime_string = Get(d, "localtime_string"),
              !.updated_at = now]

\* the row of INSERT INTO locations (...) VALUES (...) RETURNING id
NewLocation(id, d, now) ==
    [id |-> id, name |-> Get(d, "name"), region |-> Get(d, "region"),
     country |-> Get(d, "country"), lat |-> Get(d, "lat"), lon |-> Get(d, "lon"),
     tz_id |-> Get(d, "tz_id"), localtime_epoch |-> Get(d, "localtime_epoch"),
     localtime_string |-> Get(d, "localtime_string"),
     created_at |-> now, updated_at |-> now]

\* name and country are NOT NULL; UNIQUE(name, country, region), NULLs distinct
LocationConstraintViolated(locs, row) ==
    \/ row.name = Null
    \/ row.country = Null
    \/ \E r \in locs : /\ SqlEq(r.name, row.name)
                       /\ SqlEq(r.country, row.country)
                       /\ SqlEq(r.region, row.region)

\* an upsert that hands out the id it drew although its INSERT was not committed
UpsertWriteUncommitted(locs, seq, d, existing, now) ==
    IF existing # Null
    THEN [locations |-> {IF r.id = existing[1] THEN UpdateLocation(r, d, now) ELSE r
                           : r \in locs},
          seq |-> seq, ret |-> existing]
    ELSE [locations |-> locs, seq |-> seq + 1, ret |-> Some(seq + 1)]

\* the write half of insert_or_get_location, given what the SELECT found:
\* the tables after it and the id returned (Null when the statement raised)
UpsertWrite(locs, seq, d, existing, now) ==
    IF existing # Null
    THEN [locations |-> {IF r.id = existing[1] THEN UpdateLocation(r, d, now) ELSE r
                           : r \in locs},
          seq |-> seq, ret |-> existing]
    ELSE LET row == NewLocation(seq + 1, d, now) IN
         IF LocationConstraintViolated(locs, row)
         THEN [locations |-> locs, seq |-> seq + 1, ret |-> Null]
         ELSE [locations |-> locs \cup {row}, seq |-> seq + 1, ret |-> Some(row.id)]

\* the row of INSERT INTO weather (...) VALUES (...) RETURNING id
NewWeather(id, location_id, weather_data, now) ==
    LET current == IF "current" \in DOMAIN weather_data
                   THEN weather_data.current ELSE EmptyDict
        condition == IF "condition" \in DOMAIN current
                     THEN current.condition ELSE EmptyDict
    IN [id |-> id, location_id |-> location_id,
        last_updated_epoch |-> Get(current, "last_updated_epoch"),
        last_updated |-> Get(current, "last_updated"),
        temp_c |-> Get(current, "temp_c"),
        condition_text |-> Get(condition, "text"),
        condition_code |-> Get(condition, "code"),
        humidity |-> Get(current, "humidity"),
        uv |-> Get(current, "uv"),
        raw_data |-> weather_data,
        created_at |-> now]

\* last_updated_epoch and last_updated are NOT NULL; location_id REFERENCES locations(id)
WeatherConstraintViolated(locs, row) ==
    \/ row.last_updated_epoch = Null
    \/ row.last_updated = Null
    \/ ~ \E l \in locs : l.id = row.location_id

\* a store that keeps one reading per location, the newest
InsertWeatherReplacing(locs, rows, seq, location_id, weather_data, now) ==
    LET row == NewWeather(seq + 1, location_id, weather_data, now) IN
    IF WeatherConstraintViolated(locs, row)
    THEN [weather |-> rows, seq |-> seq + 1, ret |-> Null]
    ELSE [weather |-> {r \in rows : r.location_id # location_id} \cup {row},
          seq |-> seq + 1, ret |-> Some(row.id)]

\* insert_weather_data: the table after it and the id returned (Null when it raised)
InsertWeather(locs, rows, seq, location_id, weather_data, now) ==
    LET row == NewWeather(seq + 1, location_id, weather_data, now) IN
    IF WeatherConstraintViolated(locs, row)
    THEN [weather |-> rows, seq |-> seq + 1, ret |-> Null]
    ELSE [weather |-> rows \cup {row}, seq |-> seq + 1, ret |-> Some(row.id)]

DEFAULT_LIMIT == 10

\* FROM locations l JOIN weather w ON l.id = w.location_id WHERE l.name = ANY(names)
Joined(locs, rows, city_names) ==
    {[l |-> p[1], w |-> p[2]] :
        p \in {q \in locs \X rows :
                 /\ q[1].id = q[2].location_id
                 /\ \E i \in 1..Len(city_names) : SqlEq(q[1].name, Some(city_names[i]))}}

\* ORDER BY w.last_updated_epoch DESC, w.created_at DESC: a before b is allowed
OrderedBefore(a, b) ==
    \/ a.w.last_updated_epoch[1] > b.w.last_updated_epoch[1]
    \/ /\ a.w.last_updated_epoch[1] = b.w.last_updated_epoch[1]
       /\ a.w.created_at >= b.w.created_at

\* every order the store may return the joined rows in (ties in any order)
Orderings(J) ==
    LET n == Cardinality(J) IN
    {s \in [1..n -> J] : /\ \A i, k \in 1..n : i # k => s[i] # s[k]
                         /\ \A i, k \in 1..n : i < k => OrderedBefore(s[i], s[k])}

Take(s, n) == IF Len(s) <= n THEN s ELSE SubSeq(s, 1, n)

\* null_filler = lambda x: float(x) if x else None
null_filler(x) == IF x = Null \/ x = Some(0) THEN Null ELSE x

\* the provider-shaped item built from one joined row
WeatherItem(row) ==
    [location |->
        [name |-> row.l.name, region |-> row.l.region, country |-> row.l.country,
         lat |-> null_filler(row.l.lat), lon |-> null_filler(row.l.lon),
         tz_id |-> row.l.tz_id, localtime_epoch |-> row.l.localtime_epoch,
         localtime_string |-> row.l.localtime_string],
     current |->
        [last_updated_epoch |-> row.w.last_updated_epoch,
         last_updated |-> row.w.last_updated,
         temp_c |-> null_filler(row.w.temp_c),
         condition |-> [text |-> row.w.condition_text, code |-> row.w.condition_code],
         humidity |-> row.w.humidity,
         uv |-> null_filler(row.w.uv)]]

\* the grouping loop of get_recent_weather_data over the fetched rows: the loop
\* body only binds city_name, and the test that follows the loop sees the last
\* row; with no row at all city_name is unbound and the function raises
GroupByCity(results) ==
    IF Len(results) = 0
    THEN [raised |-> TRUE, data |-> <<>>]
    ELSE [raised |-> FALSE, data |-> <<WeatherItem(results[Len(results)])>>]

\* get_recent_weather_data(city_names), for one order of the fetched rows
GetRecentWeatherData(results, city_names) ==
    GroupByCity(Take(results, DEFAULT_LIMIT * Len(city_names)))

----------------------------------------------------------------------------
(* Rate limiter: rate_limited_request *)

NoTask == [pc |-> "none", city |-> "", current_time |-> 0, grant |-> Null,
           response |-> Null,
           data |-> Null, existing |-> Null, location_id |-> Null,
           weather_id |-> Null,
           db_error |-> FALSE, result |-> Null, raised |-> Null,
           conn |-> <<>>]

\* WakeTime without the sleep
WakeTimeNoSleep(current_time, last) == current_time

\* time.time() at which the sleep of the critical section is over
WakeTime(current_time, last) ==
    LET time_since_last == current_time - last IN
    IF time_since_last < MIN_REQUEST_INTERVAL
    THEN current_time + (MIN_REQUEST_INTERVAL - time_since_last)
    ELSE current_time

Sleeping(t) ==
    /\ task[t].pc = "locked"
    /\ clock < WakeTime(task[t].current_time, last_request_time)

\* time passes: freely up to MaxTime, and always while a thread sleeps
Tick(free) ==
    /\ (free /\ clock < MaxTime) \/ (\E t \in Tasks : Sleeping(t))
    /\ clock' = clock + TickMs
    /\ UNCHANGED <<last_request_time, request_lock, grant_log, recent_requests,
                   locations, weather, locations_id_seq, weather_id_seq, task,
                   batch, uuid_seq, reply>>

\* with request_lock: current_time = time.time()
Acquire(t) ==
    /\ task[t].pc = "acquire"
    /\ request_lock = Null
    /\ request_lock' = Some(t)
    /\ task' = [task EXCEPT ![t].pc = "locked", ![t].current_time = clock]
    /\ UNCHANGED <<clock, last_request_time, grant_log, recent_requests, locations,
                   weather, locations_id_seq, weather_id_seq, batch, uuid_seq, reply>>

\* a limiter that records the grant and walks away with the lock still held
GrantedKeepsLock(t) ==
    /\ task[t].pc = "locked"
    /\ request_lock = Some(t)
    /\ clock >= WakeTime(task[t].current_time, last_request_time)
    /\ last_request_time' = clock
    /\ grant_log' = Append(grant_log, clock)
    /\ request_lock' = request_lock
    /\ task' = [task EXCEPT ![t].pc = "http", ![t].grant = Some(clock)]
    /\ UNCHANGED <<clock, recent_requests, locations, weather, locations_id_seq,
                   weather_id_seq, batch, uuid_seq, reply>>

\* the sleep is over: last_request_time = time.time(), and the lock is released
Granted(t) ==
    /\ task[t].pc = "locked"
    /\ request_lock = Some(t)
    /\ clock >= WakeTime(task[t].current_time, last_request_time)
    /\ last_request_time' = clock
    /\ grant_log' = Append(grant_log, clock)
    /\ request_lock' = Null
    /\ task' = [task EXCEPT ![t].pc = "http", ![t].grant = Some(clock)]
    /\ UNCHANGED <<clock, recent_requests, locations, weather, locations_id_seq,
                   weather_id_seq, batch, uuid_seq, reply>>

----------------------------------------------------------------------------
(* Weather fetcher: get_weather_for_city *)

ErrorDict(tag, message) == [error |-> tag, message |-> message]

\* a handler without the branch for 400
HTTPErrorOutcomeNo400(city, status_code) ==
    IF status_code = 401
    THEN ErrorDict("auth", <<"Invalid API key">>)
    ELSE IF status_code = 403
    THEN ErrorDict("limit", <<"API request limit exceeded">>)
    ELSE ErrorDict("http", <<"HTTP ", ToString(status_code), " error for ", city>>)

\* a handler that takes 401 for the quota status
HTTPErrorOutcomeSwapped(city, status_code) ==
    IF status_code = 400
    THEN ErrorDict("not_found", <<"City '", city, "' not found">>)
    ELSE IF status_code = 403
    THEN ErrorDict("auth", <<"Invalid API key">>)
    ELSE IF status_code = 401
    THEN ErrorDict("limit", <<"API request limit exceeded">>)
    ELSE ErrorDict("http", <<"HTTP ", ToString(status_code), " error for ", city>>)

\* except requests.exceptions.HTTPError: the dict returned for a status code
HTTPErrorOutcome(city, status_code) ==
    IF status_code = 400
    THEN ErrorDict("not_found", <<"City '", city, "' not found">>)
    ELSE IF status_code = 401
    THEN ErrorDict("auth", <<"Invalid API key">>)
    ELSE IF status_code = 403
    THEN ErrorDict("limit", <<"API request limit exceeded">>)
    ELSE ErrorDict("http", <<"HTTP ", ToString(status_code), " error for ", city>>)

\* a validation that looks for 'location' only
InvalidStructureLocationOnly(data) == ~ Contains(data, "location")

\* 'location' not in data or 'current' not in data
InvalidStructure(data) == ~ Contains(data, "location") \/ ~ Contains(data, "current")

\* the exception raised in the try body before the storage block, "none" if none:
\* by requests.get, by raise_for_status, by response.json() on a body that is
\* not JSON, or by the `in` test on a number or null
RaisedInTry(resp) ==
    IF resp.exc # "none" THEN resp.exc
    ELSE IF RaisesForStatus(resp) THEN "HTTPError"
    ELSE IF JsonKind(resp.body) = "not_json" THEN "JSONDecodeError"
    ELSE IF JsonKind(resp.body) = "scalar" THEN "TypeError"
    ELSE "none"

\* the classes deriving from Exception among those the try body raises
ExceptionSubclasses == {"Timeout", "ConnectionError", "HTTPError", "JSONDecodeError",
                        "TypeError"}

\* except clauses that stop at the exceptions of the requests library
CaughtByExceptRequestsOnly(exc) ==
    exc \in {"Timeout", "ConnectionError", "HTTPError", "JSONDecodeError"}

\* except Timeout, except HTTPError, except Exception: is the exception caught
CaughtByExcept(exc) ==
    exc = "Timeout" \/ exc = "HTTPError" \/ exc \in ExceptionSubclasses

\* what get_weather_for_city returns without reaching the database: Some(outcome),
\* or Null when the response is structurally valid and the fetch goes on to store it
EarlyOutcome(city, resp) ==
    LET exc == RaisedInTry(resp) IN
    IF exc = "Timeout"
    THEN Some(Some(ErrorDict("timeout", <<"Request timeout for ", city>>)))
    ELSE IF exc = "HTTPError"
    THEN Some(Some(HTTPErrorOutcome(city, resp.status)))
    ELSE IF exc # "none"
    THEN Some(Some(ErrorDict("unexpected", <<"Unexpected error: ", exc>>)))
    ELSE IF InvalidStructure(resp.body)
    THEN Some(Null)
    ELSE Null

\* the tasks of batch b that a pool worker is running
Running(b) ==
    {i \in Indexes : task[<<b, i>>].pc \notin {"none", "queued", "done"}}

\* a pool that starts a thread for every submitted task
StartUnbounded(t) ==
    /\ task[t].pc = "queued"
    /\ \A i \in Indexes : i < t[2] => task[<<t[1], i>>].pc # "queued"
    /\ task' = [task EXCEPT ![t].pc = "acquire"]
    /\ UNCHANGED <<rl_vars, recent_requests, db_vars, batch, uuid_seq, reply>>

\* a pool worker takes the next queued task of its batch (FIFO work queue)
Start(t) ==
    /\ task[t].pc = "queued"
    /\ \A i \in Indexes : i < t[2] => task[<<t[1], i>>].pc # "queued"
    /\ Cardinality(Running(t[1])) < MAX_CONCURRENT_REQUESTS
    /\ task' = [task EXCEPT ![t].pc = "acquire"]
    /\ UNCHANGED <<rl_vars, recent_requests, db_vars, batch, uuid_seq, reply>>

\* a storage exception that fails the fetch
SwallowedAsFailure(tk) ==
    [tk EXCEPT !.pc = "done", !.db_error = TRUE,
               !.result = Some(<<tk.city, Some([error |-> "storage_error",
                                               message |-> <<"Database error">>])>>)]

\* except Exception as db_error: logged, and the fetch returns city, data
Swallowed(tk) == [tk EXCEPT !.pc = "done", !.db_error = TRUE,
                            !.result = Some(<<tk.city, tk.data>>)]

\* requests.get returns or raises; raise_for_status, json() and the validation
\* follow; data['location'] of a list or str raises inside the storage block
Http(t, resp) ==
    /\ task[t].pc = "http"
    /\ LET exc == RaisedInTry(resp)
           early == EarlyOutcome(task[t].city, resp)
           tk == [task[t] EXCEPT !.response = Some(resp)]
       IN task' = [task EXCEPT ![t] =
                     IF exc # "none" /\ ~ CaughtByExcept(exc)
                     THEN [tk EXCEPT !.pc = "done", !.raised = Some(exc)]
                     ELSE IF early # Null
                     THEN [tk EXCEPT !.pc = "done",
                                     !.result = Some(<<task[t].city, early[1]>>)]
                     ELSE IF JsonKind(resp.body) # "object"
                     THEN Swallowed([tk EXCEPT !.data = Some(resp.body)])
                     ELSE [tk EXCEPT !.pc = "select", !.data = Some(resp.body)]]
    /\ UNCHANGED <<rl_vars, recent_requests, db_vars, batch, uuid_seq, reply>>

\* psycopg2.connect returned a connection: what is done on it from here on
Connect == <<"connect">>

\* a context manager that closes without rolling back
ConnExitNoRollback(raised) == <<"close">>

\* get_connection once the with body is left: the except clause rolls back when
\* the body raised, the finally clause closes
ConnExit(raised) == IF raised THEN <<"rollback", "close">> ELSE <<"close">>

\* insert_or_get_location, first half: connect and SELECT
UpsertSelect(t) ==
    /\ task[t].pc = "select"
    /\ LET found == SelectLocation(locations, task[t].data[1].location) IN
       \E e \in (IF found = {} THEN {Null} ELSE {Some(r.id) : r \in found}) :
          task' = [task EXCEPT ![t].pc = "write", ![t].existing = e,
                               ![t].conn = Connect]
    /\ UNCHANGED <<rl_vars, recent_requests, db_vars, batch, uuid_seq, reply>>

\* insert_or_get_location, second half: UPDATE or INSERT, and commit
UpsertCommit(t) ==
    /\ task[t].pc = "write"
    /\ LET r == UpsertWrite(locations, locations_id_seq, task[t].data[1].location,
                            task[t].existing, clock)
       IN /\ locations' = r.locations
          /\ locations_id_seq' = r.seq
          /\ task' = [task EXCEPT ![t] =
                        IF r.ret = Null
                        THEN Swallowed([task[t] EXCEPT !.conn = @ \o ConnExit(TRUE)])
                        ELSE [task[t] EXCEPT !.pc = "weather", !.location_id = r.ret,
                                             !.conn = @ \o <<"commit">> \o ConnExit(FALSE)]]
    /\ UNCHANGED <<rl_vars, recent_requests, weather, weather_id_seq, batch,
                   uuid_seq, reply>>

\* insert_weather_data(location_id, data), then return city, data
AppendReading(t) ==
    /\ task[t].pc = "weather"
    /\ LET r == InsertWeather(locations, weather, weather_id_seq,
                              task[t].location_id[1], task[t].data[1], clock)
       IN /\ weather' = r.weather
          /\ weather_id_seq' = r.seq
          /\ task' = [task EXCEPT ![t] =
                        IF r.ret = Null
                        THEN Swallowed([task[t] EXCEPT !.conn = Connect \o ConnExit(TRUE)])
                        ELSE [task[t] EXCEPT !.pc = "done", !.weather_id = r.ret,
                                             !.conn = Connect \o <<"commit">>
                                                         \o ConnExit(FALSE),
                                             !.result = Some(<<task[t].city, task[t].data>>)]]
    /\ UNCHANGED <<rl_vars, recent_requests, locations, locations_id_seq, batch,
                   uuid_seq, reply>>

\* a store in which both operations of a fetch share one transaction: a failure
\* of the second undoes the row the first inserted
StorageErrorUndoesUpsert(t) ==
    /\ task[t].pc \in {"select", "write", "weather"}
    /\ \E connected \in BOOLEAN :
          /\ task[t].pc = "write" => connected
          /\ task' = [task EXCEPT ![t] =
                Swallowed([task[t] EXCEPT !.conn =
                    IF ~ connected THEN <<>>
                    ELSE IF task[t].pc = "write" THEN @ \o ConnExit(TRUE)
                    ELSE Connect \o ConnExit(TRUE)])]
    /\ locations' = IF task[t].pc = "weather" /\ task[t].existing = Null
                    THEN {l \in locations : l.id # task[t].location_id[1]}
                    ELSE locations
    /\ UNCHANGED <<rl_vars, recent_requests, weather, locations_id_seq,
                   weather_id_seq, batch, uuid_seq, reply>>

\* the store fails: psycopg2.connect raises and there is no connection, or a
\* statement raises on the open one and get_connection rolls back, closes and
\* re-raises; the fetch swallows the exception
StorageError(t) ==
    /\ task[t].pc \in {"select", "write", "weather"}
    /\ \E connected \in BOOLEAN :
          /\ task[t].pc = "write" => connected
          /\ task' = [task EXCEPT ![t] =
                Swallowed([task[t] EXCEPT !.conn =
                    IF ~ connected THEN <<>>
                    ELSE IF task[t].pc = "write" THEN @ \o ConnExit(TRUE)
                    ELSE Connect \o ConnExit(TRUE)])]
    /\ UNCHANGED <<rl_vars, recent_requests, db_vars, batch, uuid_seq, reply>>

----------------------------------------------------------------------------
(* Fan-out orchestrator: process_weather_request *)

NoResponse == [success |-> FALSE, request_id |-> 0, requested_cities |-> <<>>,
               successful_cities |-> 0, failed_cities |-> 0, errors |-> <<>>]

IdleBatch == [pc |-> "idle", cities |-> <<>>, request_id |-> 0, results |-> <<>>,
              errors |-> <<>>, successful_cities |-> <<>>, collected |-> {},
              response |-> NoResponse]

\* CollectResult that appends nothing for a None outcome
CollectResultDropsNone(b, city, result) ==
    IF result[2] = Null THEN b
    ELSE IF "error" \in DOMAIN result[2][1]
    THEN [b EXCEPT !.errors = Append(@, <<city, ": Unexpected processing error">>)]
    ELSE [b EXCEPT !.results = Append(@, result[2][1]),
                   !.successful_cities = Append(@, result[1])]

\* the body of the as_completed loop for one future: city is future_to_city[future],
\* result is what the future holds
CollectResult(b, city, result) ==
    LET city_name == result[1]
        weather_data == result[2]
    IN IF weather_data = Null
       THEN [b EXCEPT !.errors = Append(@, <<"No data received for ", city_name>>)]
       ELSE IF Contains(weather_data[1], "error")
       THEN IF JsonKind(weather_data[1]) = "object" /\ "message" \in DOMAIN weather_data[1]
            THEN [b EXCEPT !.errors =
                     Append(@, <<city_name, ": ">> \o weather_data[1].message)]
            ELSE \* KeyError or TypeError, caught by the loop's except clause
                 [b EXCEPT !.errors = Append(@, <<city, ": Unexpected processing error">>)]
       ELSE [b EXCEPT !.results = Append(@, weather_data[1]),
                      !.successful_cities = Append(@, city_name)]

\* a deque filled from the head: appendleft
DequeAppendLeft(q, x) ==
    IF Len(q) >= RECENT_MAXLEN THEN <<x>> \o SubSeq(q, 1, Len(q) - 1) ELSE <<x>> \o q

\* a deque that never evicts
DequeAppendUnbounded(q, x) == Append(q, x)

\* deque(maxlen=100).append
DequeAppend(q, x) ==
    IF Len(q) >= RECENT_MAXLEN THEN Append(Tail(q), x) ELSE Append(q, x)

\* a response whose success flag asks for a batch without failures
BuildResponseAllSucceeded(b) ==
    [success |-> Len(b.errors) = 0,
     request_id |-> b.request_id,
     requested_cities |-> b.cities,
     successful_cities |-> Len(b.results),
     failed_cities |-> Len(b.errors),
     errors |-> b.errors]

\* the response dict built at the end of process_weather_request
BuildResponse(b) ==
    [success |-> Len(b.results) > 0,
     request_id |-> b.request_id,
     requested_cities |-> b.cities,
     successful_cities |-> Len(b.results),
     failed_cities |-> Len(b.errors),
     errors |-> b.errors]

\* number of fetch tasks submitted so far
Fetches ==
    Len(grant_log)
    + Cardinality({t \in Tasks : task[t].pc \in {"queued", "acquire", "locked"}})

\* an id made once, when the module is loaded
uuid4AtImport(drawn) == 1

\* str(uuid.uuid4()): a value no earlier draw returned, given the number of draws
uuid4(drawn) == drawn + 1

\* a dispatcher that submits one task per distinct name
SubmitOncePerName(b, cities, max) ==
    /\ batch[b].pc = "idle"
    /\ Fetches + Len(cities) <= max
    /\ uuid_seq' = uuid_seq + 1
    /\ batch' = [batch EXCEPT ![b] = [IdleBatch EXCEPT !.pc = "collect",
                                                         !.cities = cities,
                                                         !.request_id = uuid4(uuid_seq)]]
    /\ task' = [t \in Tasks |->
                  IF t[1] = b
                  THEN IF /\ t[2] <= Len(cities)
                          /\ \A j \in 1..(t[2] - 1) : cities[j] # cities[t[2]]
                       THEN [NoTask EXCEPT !.pc = "queued", !.city = cities[t[2]]]
                       ELSE NoTask
                  ELSE task[t]]
    /\ UNCHANGED <<rl_vars, recent_requests, db_vars, reply>>

\* process_weather_request(cities) is entered: uuid4, and one task submitted per entry
Submit(b, cities, max) ==
    /\ batch[b].pc = "idle"
    /\ Fetches + Len(cities) <= max
    /\ uuid_seq' = uuid_seq + 1
    /\ batch' = [batch EXCEPT ![b] = [IdleBatch EXCEPT !.pc = "collect",
                                                         !.cities = cities,
                                                         !.request_id = uuid4(uuid_seq)]]
    /\ task' = [t \in Tasks |->
                  IF t[1] = b
                  THEN IF t[2] <= Len(cities)
                       THEN [NoTask EXCEPT !.pc = "queued", !.city = cities[t[2]]]
                       ELSE NoTask
                  ELSE task[t]]
    /\ UNCHANGED <<rl_vars, recent_requests, db_vars, reply>>

\* future.result() re-raises what the task raised: the loop's except clause
FutureRaised(b, city) ==
    [b EXCEPT !.errors = Append(@, <<city, ": Unexpected processing error">>)]

\* as_completed yields a finished future
Collect(b, i) ==
    /\ batch[b].pc = "collect"
    /\ i \notin batch[b].collected
    /\ task[<<b, i>>].pc = "done"
    /\ batch' = [batch EXCEPT ![b] =
                   [(IF task[<<b, i>>].raised # Null
                     THEN FutureRaised(batch[b], batch[b].cities[i])
                     ELSE CollectResult(batch[b], batch[b].cities[i],
                                        task[<<b, i>>].result[1]))
                      EXCEPT !.collected = @ \cup {i}]]
    /\ UNCHANGED <<rl_vars, recent_requests, db_vars, task, uuid_seq, reply>>

\* a batch that is remembered only when a city succeeded
RecordIfAny(b) ==
    /\ batch[b].pc = "collect"
    /\ batch[b].collected = 1..Len(batch[b].cities)
    /\ recent_requests' = IF batch[b].successful_cities = <<>> THEN recent_requests
                          ELSE DequeAppend(recent_requests,
                                   [request_id |-> batch[b].request_id,
                                    cities |-> batch[b].successful_cities,
                                    timestamp |-> clock,
                                    requested_at |-> <<"iso", clock>>])
    /\ batch' = [batch EXCEPT ![b].pc = "done", ![b].response = BuildResponse(batch[b])]
    /\ UNCHANGED <<rl_vars, db_vars, task, uuid_seq, reply>>

\* a record pushed as soon as one future is collected
RecordEarly(b) ==
    /\ batch[b].pc = "collect"
    /\ batch[b].collected # {}
    /\ recent_requests' = DequeAppend(recent_requests,
                              [request_id |-> batch[b].request_id,
                               cities |-> batch[b].successful_cities,
                               timestamp |-> clock,
                               requested_at |-> <<"iso", clock>>])
    /\ batch' = [batch EXCEPT ![b].pc = "done", ![b].response = BuildResponse(batch[b])]
    /\ UNCHANGED <<rl_vars, db_vars, task, uuid_seq, reply>>

\* every future is collected: the record is pushed under recent_requests_lock and
\* the response is built
Record(b) ==
    /\ batch[b].pc = "collect"
    /\ batch[b].collected = 1..Len(batch[b].cities)
    /\ recent_requests' = DequeAppend(recent_requests,
                              [request_id |-> batch[b].request_id,
                               cities |-> batch[b].successful_cities,
                               timestamp |-> clock,
                               requested_at |-> <<"iso", clock>>])
    /\ batch' = [batch EXCEPT ![b].pc = "done", ![b].response = BuildResponse(batch[b])]
    /\ UNCHANGED <<rl_vars, db_vars, task, uuid_seq, reply>>

\* the response has been handed to the caller; the handler thread is free again
Return(b) ==
    /\ batch[b].pc = "done"
    /\ batch' = [batch EXCEPT ![b] = IdleBatch]
    /\ task' = [t \in Tasks |-> IF t[1] = b THEN NoTask ELSE task[t]]
    /\ UNCHANGED <<rl_vars, recent_requests, db_vars, uuid_seq, reply>>

----------------------------------------------------------------------------
(* Query surface *)

NoReply == [op |-> "none"]

MAX_CITIES == 20

\* a str entry: its text between lead leading and trail trailing whitespace
\* characters, the text being "" for a str of whitespace only
Str(lead, text, trail) == [lead |-> lead, text |-> text, trail |-> trail]
\* an entry that is not a str
NotStr(v) == [number |-> v]

\* the value under the key cities: a list of entries, or something else that is
\* truthy ("London", 7) or falsy ("", 0, null)
JList(items) == [list |-> items]
JOther(truthy) == [other |-> truthy]

\* a request: its content type, whether the JSON is an object, the key cities
RequestBody(is_json, is_object, cities) ==
    [is_json |-> is_json, is_object |-> is_object, cities |-> cities]

IsStr(e) == "text" \in DOMAIN e
\* str.strip()
Strip(e) == e.text
\* not cities
Falsy(v) == IF "list" \in DOMAIN v THEN Len(v.list) = 0 ELSE ~ v.other
IsList(v) == "list" \in DOMAIN v

\* the loop that builds clean_cities
RECURSIVE CleanCities(_)
CleanCities(cities) ==
    IF Len(cities) = 0 THEN <<>>
    ELSE LET city == Head(cities) IN
         IF IsStr(city) /\ Strip(city) # ""
         THEN <<Strip(city)>> \o CleanCities(Tail(cities))
         ELSE CleanCities(Tail(cities))

Verdict(status, error, clean_cities) ==
    [status |-> status, error |-> error, clean_cities |-> clean_cities]

\* a validation without the limit on the number of names
ValidateNoLimit(body) ==
    IF ~ body.is_json
    THEN Verdict(400, "Content-Type must be application/json", <<>>)
    ELSE IF ~ body.is_object
    THEN Verdict(500, "Internal server error", <<>>)
    ELSE LET cities == IF body.cities = Null THEN JList(<<>>) ELSE body.cities[1] IN
         IF Falsy(cities)
         THEN Verdict(400, "No cities provided", <<>>)
         ELSE IF ~ IsList(cities)
         THEN Verdict(400, "Cities must be provided as an array", <<>>)
         ELSE LET clean_cities == CleanCities(cities.list) IN
              IF Len(clean_cities) = 0
              THEN Verdict(400, "No valid city names provided", <<>>)
              ELSE Verdict(200, "", clean_cities)

\* the validation of process_weather: the answer of a rejection, or status 200
\* and the list handed to process_weather_request
Validate(body) ==
    IF ~ body.is_json
    THEN Verdict(400, "Content-Type must be application/json", <<>>)
    ELSE IF ~ body.is_object
    THEN Verdict(500, "Internal server error", <<>>)
    ELSE LET cities == IF body.cities = Null THEN JList(<<>>) ELSE body.cities[1] IN
         IF Falsy(cities)
         THEN Verdict(400, "No cities provided", <<>>)
         ELSE IF ~ IsList(cities)
         THEN Verdict(400, "Cities must be provided as an array", <<>>)
         ELSE LET clean_cities == CleanCities(cities.list) IN
              IF Len(clean_cities) = 0
              THEN Verdict(400, "No valid city names provided", <<>>)
              ELSE IF Len(clean_cities) > MAX_CITIES
              THEN Verdict(400, "Too many cities requested (max 20)", <<>>)
              ELSE Verdict(200, "", clean_cities)

\* POST /process-weather with the given body: rejected, or process_weather_request
\* is entered with the clean list
process_weather(b, body, max) ==
    LET v == Validate(body) IN
    IF v.status # 200
    THEN /\ batch[b].pc = "idle"
         /\ reply' = [op |-> "process-weather", status |-> v.status,
                      success |-> FALSE, error |-> v.error]
         /\ UNCHANGED <<rl_vars, recent_requests, db_vars, task, batch, uuid_seq>>
    ELSE Submit(b, v.clean_cities, max)

\* GET /recent-requests
get_recent_requests ==
    /\ reply' = [op |-> "recent-requests", status |-> 200, success |-> TRUE,
                 requests |-> recent_requests, count |-> Len(recent_requests)]
    /\ UNCHANGED <<rl_vars, recent_requests, db_vars, task, batch, uuid_seq>>

\* the record that has been in the deque longest
LatestOldest(q) == q[1]

\* recent_requests[-1]
Latest(q) == q[Len(q)]

RecentReply(status, error, request_id, data, requested_at) ==
    [op |-> "get-recent-data", status |-> status, success |-> status = 200,
     error |-> error, request_id |-> request_id, data |-> data,
     cities_count |-> Len(data), requested_at |-> requested_at]

\* GET /get-recent-data
get_recent_data ==
    /\ IF Len(recent_requests) = 0
       THEN reply' = RecentReply(404, "No recent requests found", 0, <<>>, Null)
       ELSE LET latest_request == Latest(recent_requests)
                city_names == latest_request.cities
            IN IF Len(city_names) = 0
               THEN reply' = RecentReply(404, "No successful cities in recent request",
                                         0, <<>>, Null)
               ELSE \E results \in Orderings(Joined(locations, weather, city_names)) :
                      LET r == GetRecentWeatherData(results, city_names) IN
                      reply' = IF r.raised
                               THEN RecentReply(500, "Internal server error", 0, <<>>, Null)
                               ELSE IF Len(r.data) = 0
                               THEN RecentReply(404,
                                       "No weather data found for recent cities",
                                       0, <<>>, Null)
                               ELSE RecentReply(200, "", latest_request.request_id,
                                                r.data, Some(latest_request.requested_at))
    /\ UNCHANGED <<rl_vars, recent_requests, db_vars, task, batch, uuid_seq>>

\* POST /get-data-by-cities with body {"cities": cities}
get_data_by_cities(cities) ==
    /\ IF Len(cities) = 0
       THEN reply' = [op |-> "get-data-by-cities", cities |-> cities, status |-> 400,
                      success |-> FALSE, data |-> <<>>, cities_count |-> 0]
       ELSE \E results \in Orderings(Joined(locations, weather, cities)) :
              LET r == GetRecentWeatherData(results, cities) IN
              reply' = IF r.raised
                       THEN [op |-> "get-data-by-cities", cities |-> cities,
                             status |-> 500, success |-> FALSE, data |-> <<>>,
                             cities_count |-> 0]
                       ELSE [op |-> "get-data-by-cities", cities |-> cities,
                             status |-> 200, success |-> TRUE, data |-> r.data,
                             cities_count |-> Len(r.data)]
    /\ UNCHANGED <<rl_vars, recent_requests, db_vars, task, batch, uuid_seq>>

----------------------------------------------------------------------------
(* Specifications *)

MaxFetches == 2
MaxExampleFetches == 3
MaxStoreFetches == 3
MaxRateFetches == 2

CityLists == {<<"London">>, <<"London", "London">>, <<"London", "NotACityXYZ123">>,
              <<"London", "Paris", "NotACityXYZ123">>}

NameLists == {<<>>, <<"London">>, <<"Paris">>, <<"London", "Paris">>}

Init ==
    /\ clock = Epoch
    /\ last_request_time = 0
    /\ request_lock = Null
    /\ grant_log = <<>>
    /\ recent_requests = <<>>
    /\ locations = {}
    /\ weather = {}
    /\ locations_id_seq = 0
    /\ weather_id_seq = 0
    /\ task = [t \in Tasks |-> NoTask]
    /\ batch = [b \in Slots |-> IdleBatch]
    /\ uuid_seq = 0
    /\ reply = NoReply

\* the pipeline, one batch at a time, under every answer of the provider and a
\* store that may fail at any operation
Next ==
    \/ \E cities \in CityLists : Submit(1, cities, MaxFetches)
    \/ \E t \in Tasks : Start(t)
    \/ \E t \in Tasks : Acquire(t)
    \/ Tick(FALSE)
    \/ \E t \in Tasks : Granted(t)
    \/ \E t \in Tasks : \E resp \in ProviderResponses(task[t].city) : Http(t, resp)
    \/ \E t \in Tasks : UpsertSelect(t)
    \/ \E t \in Tasks : UpsertCommit(t)
    \/ \E t \in Tasks : AppendReading(t)
    \/ \E t \in Tasks : StorageError(t)
    \/ \E i \in Indexes : Collect(1, i)
    \/ Record(1)
    \/ Return(1)

Spec == Init /\ [][Next]_vars

\* a provider that answers a known city with a valid payload and any other with 400
PlainAnswers(city) ==
    IF city \in KnownCities THEN {Answer(200, Payload(city, Region(city), 100, 15))}
    ELSE {Answer(400, NoBody)}

NextExample ==
    \/ \E cities \in CityLists : Submit(1, cities, MaxExampleFetches)
    \/ \E t \in Tasks : Start(t)
    \/ \E t \in Tasks : Acquire(t)
    \/ Tick(FALSE)
    \/ \E t \in Tasks : Granted(t)
    \/ \E t \in Tasks : \E resp \in PlainAnswers(task[t].city) : Http(t, resp)
    \/ \E t \in Tasks : UpsertSelect(t)
    \/ \E t \in Tasks : UpsertCommit(t)
    \/ \E t \in Tasks : AppendReading(t)
    \/ \E t \in Tasks : StorageError(t)
    \/ \E i \in Indexes : Collect(1, i)
    \/ Record(1)
    \/ Return(1)

SpecExample == Init /\ [][NextExample]_vars

\* single-city batches one after the other, a healthy provider and store, and
\* the query by city names
ValidAnswers(city) == {Answer(200, b) : b \in ValidBodies(city)}

NextStore ==
    \/ \E city \in KnownCities : Submit(1, <<city>>, MaxStoreFetches)
    \/ \E t \in Tasks : Start(t)
    \/ \E t \in Tasks : Acquire(t)
    \/ Tick(FALSE)
    \/ \E t \in Tasks : Granted(t)
    \/ \E t \in Tasks : \E resp \in ValidAnswers(task[t].city) : Http(t, resp)
    \/ \E t \in Tasks : UpsertSelect(t)
    \/ \E t \in Tasks : UpsertCommit(t)
    \/ \E t \in Tasks : AppendReading(t)
    \/ \E i \in Indexes : Collect(1, i)
    \/ Record(1)
    \/ Return(1)
    \/ \E cities \in NameLists : get_data_by_cities(cities)

SpecStore == Init /\ [][NextStore]_vars

\* concurrent batches for unknown cities while time passes freely
UnknownLists == {<<"NotACityXYZ123">>, <<"NotACityXYZ123", "NotACityXYZ123">>}

NextRate ==
    \/ \E b \in Slots, cities \in UnknownLists : Submit(b, cities, MaxRateFetches)
    \/ \E t \in Tasks : Start(t)
    \/ \E t \in Tasks : Acquire(t)
    \/ Tick(TRUE)
    \/ \E t \in Tasks : Granted(t)
    \/ \E t \in Tasks : \E resp \in PlainAnswers(task[t].city) : Http(t, resp)
    \/ \E b \in Slots, i \in Indexes : Collect(b, i)
    \/ \E b \in Slots : Record(b)
    \/ \E b \in Slots : Return(b)

SpecRate == Init /\ [][NextRate]_vars

\* more batches than the recent-batches buffer holds, one after the other
NextRing ==
    \/ Submit(1, <<"London">>, MaxRingBatches)
    \/ \E t \in Tasks : Start(t)
    \/ \E t \in Tasks : Acquire(t)
    \/ Tick(FALSE)
    \/ \E t \in Tasks : Granted(t)
    \/ \E t \in Tasks : \E resp \in PlainAnswers(task[t].city) : Http(t, resp)
    \/ \E t \in Tasks : UpsertSelect(t)
    \/ \E t \in Tasks : UpsertCommit(t)
    \/ \E t \in Tasks : AppendReading(t)
    \/ \E i \in Indexes : Collect(1, i)
    \/ Record(1)
    \/ Return(1)
    \/ get_recent_requests

SpecRing == Init /\ [][NextRing]_vars

\* a provider that resolves the query q to a place and reports the place's own
\* name, which may be spelled otherwise than q
CanonicalName(city) == IF city = "london" THEN "London" ELSE city

CanonicalAnswers(city) ==
    IF CanonicalName(city) \in KnownCities
    THEN {Answer(200, Payload(CanonicalName(city), Region(CanonicalName(city)), 100, 15))}
    ELSE {Answer(400, NoBody)}

\* batches that name one city twice, so that two fetches upsert one location
\* concurrently, with a healthy provider and store
MaxRaceFetches == 2

RaceLists == {<<"London", "London">>, <<"Paris", "Paris">>}

NextRace ==
    \/ \E cities \in RaceLists : Submit(1, cities, MaxRaceFetches)
    \/ \E t \in Tasks : Start(t)
    \/ \E t \in Tasks : Acquire(t)
    \/ Tick(FALSE)
    \/ \E t \in Tasks : Granted(t)
    \/ \E t \in Tasks : \E resp \in ValidAnswers(task[t].city) : Http(t, resp)
    \/ \E t \in Tasks : UpsertSelect(t)
    \/ \E t \in Tasks : UpsertCommit(t)
    \/ \E t \in Tasks : AppendReading(t)
    \/ \E i \in Indexes : Collect(1, i)
    \/ Record(1)
    \/ Return(1)

SpecRace == Init /\ [][NextRace]_vars

\* a batch runs while the queries are asked about the batches before it; the
\* store may fail
MaxPartialFetches == 3

PartialLists == {<<"London">>, <<"London", "NotACityXYZ123">>}

NextPartial ==
    \/ \E cities \in PartialLists : Submit(1, cities, MaxPartialFetches)
    \/ \E t \in Tasks : Start(t)
    \/ \E t \in Tasks : Acquire(t)
    \/ Tick(FALSE)
    \/ \E t \in Tasks : Granted(t)
    \/ \E t \in Tasks : \E resp \in PlainAnswers(task[t].city) : Http(t, resp)
    \/ \E t \in Tasks : UpsertSelect(t)
    \/ \E t \in Tasks : UpsertCommit(t)
    \/ \E t \in Tasks : AppendReading(t)
    \/ \E t \in Tasks : StorageError(t)
    \/ \E i \in Indexes : Collect(1, i)
    \/ Record(1)
    \/ Return(1)
    \/ get_recent_requests
    \/ get_recent_data

SpecPartial == Init /\ [][NextPartial]_vars

\* the pipeline under every behaviour of the provider call, bodies that are not
\* a JSON object included, and a store that may fail at any operation
FetchLists == {<<"London">>, <<"London", "NotACityXYZ123">>}

NextFetch ==
    \/ \E cities \in FetchLists : Submit(1, cities, MaxFetches)
    \/ \E t \in Tasks : Start(t)
    \/ \E t \in Tasks : Acquire(t)
    \/ Tick(FALSE)
    \/ \E t \in Tasks : Granted(t)
    \/ \E t \in Tasks : \E resp \in AllResponses(task[t].city) : Http(t, resp)
    \/ \E t \in Tasks : UpsertSelect(t)
    \/ \E t \in Tasks : UpsertCommit(t)
    \/ \E t \in Tasks : AppendReading(t)
    \/ \E t \in Tasks : StorageError(t)
    \/ \E i \in Indexes : Collect(1, i)
    \/ Record(1)
    \/ Return(1)

SpecFetch == Init /\ [][NextFetch]_vars

\* batches one after the other, some succeeding and some failing, a store that
\* may fail, and the query for the most recent batch
MaxRecentFetches == 2

RecentLists == {<<"London">>, <<"london">>, <<"Paris">>, <<"NotACityXYZ123">>,
                <<"London", "Paris">>}

NextRecent ==
    \/ \E cities \in RecentLists : Submit(1, cities, MaxRecentFetches)
    \/ \E t \in Tasks : Start(t)
    \/ \E t \in Tasks : Acquire(t)
    \/ Tick(FALSE)
    \/ \E t \in Tasks : Granted(t)
    \/ \E t \in Tasks : \E resp \in CanonicalAnswers(task[t].city) : Http(t, resp)
    \/ \E t \in Tasks : UpsertSelect(t)
    \/ \E t \in Tasks : UpsertCommit(t)
    \/ \E t \in Tasks : AppendReading(t)
    \/ \E t \in Tasks : StorageError(t)
    \/ \E i \in Indexes : Collect(1, i)
    \/ Record(1)
    \/ Return(1)
    \/ get_recent_data

SpecRecent == Init /\ [][NextRecent]_vars

\* requests to /process-weather of every kind the validation tells apart
Repeat(e, n) == [i \in 1..n |-> e]

RequestBodies ==
    {RequestBody(FALSE, FALSE, Null),
     RequestBody(TRUE, FALSE, Null),
     RequestBody(TRUE, TRUE, Null),
     RequestBody(TRUE, TRUE, Some(JList(<<>>))),
     RequestBody(TRUE, TRUE, Some(JOther(FALSE))),
     RequestBody(TRUE, TRUE, Some(JOther(TRUE))),
     RequestBody(TRUE, TRUE, Some(JList(<<Str(2, "", 0), NotStr(5)>>))),
     RequestBody(TRUE, TRUE, Some(JList(<<Str(1, "London", 1)>>))),
     RequestBody(TRUE, TRUE, Some(JList(<<Str(0, "London", 0), Str(1, "", 0), NotStr(5),
                                          Str(0, "NotACityXYZ123", 2)>>))),
     RequestBody(TRUE, TRUE, Some(JList(Repeat(Str(0, "London", 0), MAX_CITIES)))),
     RequestBody(TRUE, TRUE, Some(JList(Repeat(Str(0, "London", 1), MAX_CITIES)
                                        \o <<Str(3, "", 0)>>))),
     RequestBody(TRUE, TRUE, Some(JList(Repeat(Str(0, "London", 0), MAX_CITIES + 1))))}

MaxValidateFetches == 3

NextValidate ==
    \/ \E body \in RequestBodies : process_weather(1, body, MaxValidateFetches)
    \/ \E t \in Tasks : Start(t)
    \/ \E t \in Tasks : Acquire(t)
    \/ Tick(FALSE)
    \/ \E t \in Tasks : Granted(t)
    \/ \E t \in Tasks : \E resp \in PlainAnswers(task[t].city) : Http(t, resp)
    \/ \E t \in Tasks : UpsertSelect(t)
    \/ \E t \in Tasks : UpsertCommit(t)
    \/ \E t \in Tasks : AppendReading(t)
    \/ \E i \in Indexes : Collect(1, i)
    \/ Record(1)
    \/ Return(1)

SpecValidate == Init /\ [][NextValidate]_vars

\* one batch at a time, its workers racing for request_lock, with the provider
\* answering or timing out and the database answering or failing, under fair
\* scheduling: a thread that can run does run, a thread waiting for
\* request_lock gets it if it is free again and again, a sleep ends, a call
\* returns
MaxLiveFetches == 3

LiveLists == {<<"London", "NotACityXYZ123">>, <<"Paris">>}

LiveAnswers(city) == PlainAnswers(city) \cup {Raised("Timeout")}

StorageStep(t) ==
    UpsertSelect(t) \/ UpsertCommit(t) \/ AppendReading(t) \/ StorageError(t)

NextLive ==
    \/ \E cities \in LiveLists : Submit(1, cities, MaxLiveFetches)
    \/ \E t \in Tasks : Start(t)
    \/ \E t \in Tasks : Acquire(t)
    \/ Tick(FALSE)
    \/ \E t \in Tasks : Granted(t)
    \/ \E t \in Tasks : \E resp \in LiveAnswers(task[t].city) : Http(t, resp)
    \/ \E t \in Tasks : StorageStep(t)
    \/ \E i \in Indexes : Collect(1, i)
    \/ Record(1)
    \/ Return(1)

\* a pool worker's steps other than waiting for request_lock
WorkerStep(t) ==
    \/ Start(t)
    \/ Granted(t)
    \/ \E resp \in LiveAnswers(task[t].city) : Http(t, resp)
    \/ StorageStep(t)

\* the handler thread's steps once the tasks are submitted
HandlerStep(b) ==
    \/ \E i \in Indexes : Collect(b, i)
    \/ Record(b)
    \/ Return(b)

Fairness ==
    /\ WF_vars(Tick(FALSE))
    /\ \A t \in Tasks : t[1] = 1 => WF_vars(WorkerStep(t)) /\ SF_vars(Acquire(t))
    /\ WF_vars(HandlerStep(1))

SpecLive == Init /\ [][NextLive]_vars /\ Fairness

\* two handler threads at once, each with a one-city batch, and the query for
\* the latest batch arriving at any moment
MaxOrderFetches == 2

OrderLists == {<<"London">>, <<"NotACityXYZ123">>}

Handlers == {1, 2}

NextOrder ==
    \/ \E b \in Handlers, cities \in OrderLists : Submit(b, cities, MaxOrderFetches)
    \/ \E t \in Tasks : Start(t)
    \/ \E t \in Tasks : Acquire(t)
    \/ Tick(FALSE)
    \/ \E t \in Tasks : Granted(t)
    \/ \E t \in Tasks : \E resp \in PlainAnswers(task[t].city) : Http(t, resp)
    \/ \E t \in Tasks : UpsertSelect(t)
    \/ \E t \in Tasks : UpsertCommit(t)
    \/ \E t \in Tasks : AppendReading(t)
    \/ \E b \in Handlers, i \in Indexes : Collect(b, i)
    \/ \E b \in Handlers : Record(b)
    \/ \E b \in Handlers : Return(b)
    \/ get_recent_data

SpecOrder == Init /\ [][NextOrder]_vars

----------------------------------------------------------------------------
(* Properties *)

Done(b) == batch[b].pc = "done"

\* C1: when process_weather_request returns, successful_cities + failed_cities
\* of the response equals the length of the input list, duplicates included and
\* whatever each fetch came back with; while the futures are being collected,
\* every collected future has been counted exactly once.
C1_CountsAddUp ==
    \A b \in Slots :
       /\ batch[b].pc \in {"collect", "done"} =>
             Len(batch[b].results) + Len(batch[b].errors)
                = Cardinality(batch[b].collected)
       /\ Done(b) =>
             /\ batch[b].response.successful_cities + batch[b].response.failed_cities
                   = Len(batch[b].cities)
             /\ batch[b].response.requested_cities = batch[b].cities

\* a finished batch for a list with a duplicate name, one entry counted as a
\* success and the other as a failure through the loop's except clause
C1_Witness ==
    /\ Done(1)
    /\ batch[1].cities = <<"London", "London">>
    /\ batch[1].response.successful_cities = 1
    /\ batch[1].response.failed_cities = 1
    /\ batch[1].errors = << <<"London", ": Unexpected processing error">> >>

\* C2: the times recorded in last_request_time by any two grants, of whatever
\* thread and batch, are at least MIN_REQUEST_INTERVAL apart per grant between
\* them, so K grants span at least (K-1) * MIN_REQUEST_INTERVAL; and a fetch is
\* at or past its HTTP call only after its own grant, recorded after it read the
\* time under the lock.
C2_MinimumSpacing ==
    /\ \A i, k \in 1..Len(grant_log) :
          i < k => grant_log[k] - grant_log[i] >= (k - i) * MIN_REQUEST_INTERVAL
    /\ grant_log # <<>> => last_request_time = grant_log[Len(grant_log)]
    /\ \A t \in Tasks :
          (task[t].pc \in {"http", "select", "write", "weather", "done"}
             \/ task[t].response # Null)
          => /\ task[t].grant # Null
             /\ task[t].grant[1] >= task[t].current_time
             /\ \E k \in 1..Len(grant_log) : grant_log[k] = task[t].grant[1]

\* two grants, to threads of two concurrent batches, the second exactly one
\* interval after the first although its thread took the lock half an interval
\* after it: the thread slept under the lock
C2_Witness ==
    /\ Len(grant_log) = 2
    /\ \E t \in Tasks : /\ task[t].grant = Some(grant_log[2])
                        /\ task[t].current_time > grant_log[1]
                        /\ task[t].current_time < grant_log[2]
    /\ grant_log[2] = grant_log[1] + MIN_REQUEST_INTERVAL
    /\ \E i, k \in Indexes : /\ task[<<1, i>>].grant # Null
                             /\ task[<<2, k>>].grant # Null
                             /\ task[<<1, i>>].pc = "http"
                             /\ task[<<2, k>>].pc = "http"

\* the identity of a stored location is that of the location data d, a missing
\* region being equal to a missing region
SameIdentity(r, d) ==
    /\ r.name = Get(d, "name")
    /\ r.country = Get(d, "country")
    /\ r.region = Get(d, "region")

\* C3: insert_or_get_location called for location data whose (name, country,
\* region), the region present or absent, is already stored by an earlier call
\* returns the id of that row, leaves exactly one row of that identity, and that
\* row carries the lat, lon, tz_id and local time of this call.
C3_UpsertIdempotent ==
    [][\A t \in Tasks :
         (/\ task[t].pc = "write"
          /\ task'[t].pc \in {"weather", "done"}
          /\ ~ task'[t].db_error
          /\ \E r \in locations : SameIdentity(r, task[t].data[1].location))
         => LET d == task[t].data[1].location IN
            /\ \E r \in locations : /\ SameIdentity(r, d)
                                    /\ task'[t].location_id = Some(r.id)
            /\ Cardinality({r \in locations' : SameIdentity(r, d)}) = 1
            /\ \A r \in locations' :
                  SameIdentity(r, d) =>
                     /\ r.lat = Get(d, "lat")
                     /\ r.lon = Get(d, "lon")
                     /\ r.tz_id = Get(d, "tz_id")
                     /\ r.localtime_epoch = Get(d, "localtime_epoch")
                     /\ r.localtime_string = Get(d, "localtime_string")]_vars

\* a row is at least as recent as another by (last_updated_epoch, created_at)
AtLeastAsRecent(a, b) ==
    \/ a.w.last_updated_epoch[1] > b.w.last_updated_epoch[1]
    \/ /\ a.w.last_updated_epoch[1] = b.w.last_updated_epoch[1]
       /\ a.w.created_at >= b.w.created_at

Requested(cities, name) == \E i \in 1..Len(cities) : Some(cities[i]) = name

\* C4: when get_recent_weather_data is asked for the name of a city that has two
\* or more stored readings, the answer holds an item for that city, and every
\* item it holds for the city is built from the city's reading that is greatest
\* by (last_updated_epoch, created_at).
C4_MostRecentReading ==
    [][(reply' # reply /\ reply'.op = "get-data-by-cities" /\ reply'.status # 400)
       => \A l \in locations :
            LET mine == {j \in Joined(locations, weather, reply'.cities) : j.l = l} IN
            (Requested(reply'.cities, l.name) /\ Cardinality(mine) >= 2)
            => /\ \E k \in 1..Len(reply'.data) : reply'.data[k].location.name = l.name
               /\ \A k \in 1..Len(reply'.data) :
                     reply'.data[k].location.name = l.name
                     => \E j \in mine : /\ reply'.data[k] = WeatherItem(j)
                                        /\ \A o \in mine : AtLeastAsRecent(j, o)]_vars

\* the number of records pushed so far when batches run one after the other
Pushed == IF batch[1].pc = "collect" THEN uuid_seq - 1 ELSE uuid_seq

\* C5: the recent-batches buffer never holds more than 100 records; it holds the
\* last min(n, 100) of the n records pushed, oldest first, so that from the 101st
\* push on the first batch's id is gone; and /recent-requests lists at most 100
\* records, oldest first with consecutive ids.
C5_RingBuffer ==
    /\ Len(recent_requests) <= RECENT_MAXLEN
    /\ Len(recent_requests) = IF Pushed <= RECENT_MAXLEN THEN Pushed ELSE RECENT_MAXLEN
    /\ \A i \in 1..Len(recent_requests) :
          recent_requests[i].request_id = Pushed - Len(recent_requests) + i
    /\ reply.op = "recent-requests" =>
          /\ reply.count = Len(reply.requests)
          /\ reply.count <= RECENT_MAXLEN
          /\ \A i \in 1..(reply.count - 1) :
                reply.requests[i + 1].request_id = reply.requests[i].request_id + 1

\* 101 batches are done and /recent-requests lists exactly 100 records, the
\* first batch's not among them
C5_Witness ==
    /\ uuid_seq = RECENT_MAXLEN + 1
    /\ Done(1)
    /\ reply.op = "recent-requests"
    /\ reply.requests = recent_requests
    /\ reply.count = RECENT_MAXLEN
    /\ \A i \in 1..reply.count : reply.requests[i].request_id # 1
    /\ reply.requests[1].request_id = 2
    /\ reply.requests[RECENT_MAXLEN].request_id = batch[1].response.request_id

Count(seq, x) == Cardinality({k \in 1..Len(seq) : seq[k] = x})

\* the tasks of batch b that have the provider's answer and satisfy P
Answered(b) == {i \in 1..Len(batch[b].cities) : task[<<b, i>>].response # Null}
Resp(b, i) == task[<<b, i>>].response[1]

\* a successful HTTP status with a payload that lacks location or current
Malformed(resp) ==
    /\ resp.exc = "none"
    /\ resp.status >= 200 /\ resp.status < 300
    /\ ~ ("location" \in DOMAIN resp.body /\ "current" \in DOMAIN resp.body)

\* a successful HTTP status with a payload that holds location and current
StructurallyValid(resp) ==
    /\ resp.exc = "none"
    /\ resp.status >= 200 /\ resp.status < 300
    /\ "location" \in DOMAIN resp.body /\ "current" \in DOMAIN resp.body

C6_State ==
    /\ \A t \in Tasks :
          (task[t].response # Null /\ Malformed(task[t].response[1]))
          => /\ task[t].pc = "done"
             /\ task[t].result = Some(<<task[t].city, Null>>)
             /\ task[t].existing = Null
             /\ task[t].location_id = Null
             /\ ~ task[t].db_error
    /\ \A b \in Slots :
          Done(b) =>
             /\ \A c \in Cities :
                   Count(batch[b].errors, <<"No data received for ", c>>)
                      = Cardinality({i \in Answered(b) : /\ Malformed(Resp(b, i))
                                                         /\ batch[b].cities[i] = c})
             /\ batch[b].response.successful_cities
                   <= Cardinality({i \in Answered(b) : ~ Malformed(Resp(b, i))})

C6_Step ==
    \A t \in Tasks :
       (/\ task'[t].response # Null
        /\ Malformed(task'[t].response[1])
        /\ task'[t] # task[t])
       => UNCHANGED db_vars

\* C6: a fetch answered with a successful status and a payload without location
\* or without current ends with outcome None and never reaches the store: no
\* step of that fetch changes the locations or weather table; its batch counts
\* it among failed_cities with the error "No data received for <city>" and not
\* among successful_cities.
C6_MalformedIsFailure == []C6_State /\ [][C6_Step]_vars

\* a finished one-city batch whose payload had no current block: one failure
\* naming the city, and both tables still empty
C6_Witness ==
    /\ Done(1)
    /\ batch[1].cities = <<"London">>
    /\ Resp(1, 1).status = 200
    /\ "current" \notin DOMAIN Resp(1, 1).body
    /\ "location" \in DOMAIN Resp(1, 1).body
    /\ batch[1].response.failed_cities = 1
    /\ batch[1].response.successful_cities = 0
    /\ batch[1].errors = << <<"No data received for ", "London">> >>
    /\ locations = {} /\ weather = {}

\* tasks of a batch by payload and storage outcome
StorageFailed(b) ==
    {i \in Answered(b) : StructurallyValid(Resp(b, i)) /\ task[<<b, i>>].db_error}
StoredClean(b) ==
    {i \in Answered(b) : /\ StructurallyValid(Resp(b, i))
                         /\ ~ task[<<b, i>>].db_error
                         /\ "error" \notin DOMAIN Resp(b, i).body}
StorageFailedUntagged(b) ==
    {i \in StorageFailed(b) : "error" \notin DOMAIN Resp(b, i).body}

Succeeded(b, i) ==
    /\ task[<<b, i>>].result # Null
    /\ task[<<b, i>>].result[1][2] # Null
    /\ "error" \notin DOMAIN task[<<b, i>>].result[1][2][1]

\* C8: the response's success flag is true exactly when successful_cities >= 1,
\* that is when the fetch of at least one entry succeeded, and false exactly
\* when none did, however many failed.
C8_SuccessIffOneSucceeded ==
    \A b \in Slots :
       Done(b) =>
          /\ batch[b].response.success <=> batch[b].response.successful_cities >= 1
          /\ batch[b].response.success
                <=> \E i \in 1..Len(batch[b].cities) : Succeeded(b, i)
          /\ ~ batch[b].response.success <=> batch[b].response.successful_cities = 0

\* a finished batch reported as a success although one of its two cities failed
C8_Witness ==
    /\ Done(1)
    /\ batch[1].response.success
    /\ batch[1].response.successful_cities = 1
    /\ batch[1].response.failed_cities = 1

\* the provider's documented payload: location and current, and nothing else
PlainValid(resp) == StructurallyValid(resp) /\ DOMAIN resp.body = {"location", "current"}

BadRequest(resp) == resp.exc = "none" /\ resp.status = 400

NotFoundEntry(c) == <<c, ": ", "City '", c, "' not found">>

\* C9: in a finished batch whose every answer was a valid payload or status 400,
\* successful_cities is the number of valid answers and failed_cities the number
\* of 400 answers; the error list holds, for each city, exactly as many entries
\* as that city had 400 answers, each "<city>: City '<city>' not found", and
\* nothing else; and each valid answer's fetch returned its own payload.
C9_FailuresAreIsolated ==
    \A b \in Slots :
       (Done(b) /\ \A i \in Answered(b) : PlainValid(Resp(b, i)) \/ BadRequest(Resp(b, i)))
       => /\ Answered(b) = 1..Len(batch[b].cities)
          /\ batch[b].response.successful_cities
                = Cardinality({i \in Answered(b) : PlainValid(Resp(b, i))})
          /\ batch[b].response.failed_cities
                = Cardinality({i \in Answered(b) : BadRequest(Resp(b, i))})
          /\ \A c \in Cities :
                Count(batch[b].response.errors, NotFoundEntry(c))
                   = Cardinality({i \in Answered(b) : /\ BadRequest(Resp(b, i))
                                                      /\ batch[b].cities[i] = c})
          /\ \A k \in 1..Len(batch[b].response.errors) :
                \E c \in Cities : batch[b].response.errors[k] = NotFoundEntry(c)
          /\ \A i \in Answered(b) :
                PlainValid(Resp(b, i))
                => task[<<b, i>>].result = Some(<<batch[b].cities[i], Some(Resp(b, i).body)>>)

\* the batch London, Paris, NotACityXYZ123 is done: two succeeded, one failed,
\* and the only error names NotACityXYZ123 as not found
C9_Witness ==
    /\ Done(1)
    /\ batch[1].cities = <<"London", "Paris", "NotACityXYZ123">>
    /\ batch[1].response.success
    /\ batch[1].response.successful_cities = 2
    /\ batch[1].response.failed_cities = 1
    /\ batch[1].response.errors = <<NotFoundEntry("NotACityXYZ123")>>

\* a provider failure: the call raised, or the status is a 4xx or 5xx
ProviderFailure(resp) == resp.exc # "none" \/ (resp.status >= 400 /\ resp.status < 600)

\* the tag the claim names for a provider failure
ClaimedTag(resp) ==
    IF resp.exc = "Timeout" THEN "timeout"
    ELSE IF resp.exc # "none" THEN "unexpected"
    ELSE IF resp.status = 400 THEN "not_found"
    ELSE IF resp.status = 401 THEN "auth"
    ELSE IF resp.status = 403 THEN "rate_limited"
    ELSE "http_error"

\* the tag the code gives a provider failure
CodeTag(resp) ==
    IF resp.exc = "Timeout" THEN "timeout"
    ELSE IF resp.exc # "none" THEN "unexpected"
    ELSE IF resp.status = 400 THEN "not_found"
    ELSE IF resp.status = 401 THEN "auth"
    ELSE IF resp.status = 403 THEN "limit"
    ELSE "http"

\* the outcome of task t is a failure dict: exactly the keys error and message
FailureDict(t) ==
    /\ task[t].pc = "done"
    /\ task[t].result # Null
    /\ task[t].result[1][1] = task[t].city
    /\ task[t].result[1][2] # Null
    /\ DOMAIN task[t].result[1][2][1] = {"error", "message"}

\* C10 as claimed: timeout -> timeout, 400 -> not_found, 401 -> auth,
\* 403 -> rate_limited, any other error status -> http_error, any other
\* exception -> unexpected.
C10_AsClaimed ==
    \A t \in Tasks :
       (task[t].response # Null /\ ProviderFailure(task[t].response[1]))
       => /\ FailureDict(t)
          /\ task[t].result[1][2][1].error = ClaimedTag(task[t].response[1])

\* C10 as amended: every provider failure ends the fetch with one failure dict
\* whose tag is timeout for a request timeout, not_found for 400, auth for 401,
\* limit for 403, http for any other error status, with the status code in the
\* message text, and unexpected for any other exception.
C10_FailureTags ==
    \A t \in Tasks :
       (task[t].response # Null /\ ProviderFailure(task[t].response[1]))
       => /\ FailureDict(t)
          /\ task[t].result[1][2][1].error = CodeTag(task[t].response[1])
          /\ CodeTag(task[t].response[1]) = "http"
                => \E k \in 1..Len(task[t].result[1][2][1].message) :
                      task[t].result[1][2][1].message[k]
                         = ToString(task[t].response[1].status)

\* two fetches of one batch are done, one answered 401 and tagged auth, the
\* other answered 403 and tagged limit
C10_Witness ==
    \E t, u \in Tasks :
       /\ FailureDict(t) /\ FailureDict(u)
       /\ task[t].response[1].status = 401
       /\ task[t].result[1][2][1].error = "auth"
       /\ task[u].response[1].status = 403
       /\ task[u].result[1][2][1].error = "limit"

\* C11: get_weather_for_city never raises: whatever the provider call and the
\* store do, a finished fetch holds a pair (city, outcome) whose first component
\* is the city it was given, and no exception of it reaches future.result(); a
\* finished process_weather_request holds the structured response, with its own
\* request_id, the requested list and counts that add up to its length.
C11_NeverRaises ==
    /\ \A t \in Tasks :
          /\ task[t].raised = Null
          /\ task[t].pc = "done" =>
                /\ task[t].result # Null
                /\ Len(task[t].result[1]) = 2
                /\ task[t].result[1][1] = task[t].city
    /\ \A b \in Slots :
          Done(b) =>
             /\ DOMAIN batch[b].response = DOMAIN NoResponse
             /\ batch[b].response.request_id = batch[b].request_id
             /\ batch[b].response.requested_cities = batch[b].cities
             /\ batch[b].response.successful_cities + batch[b].response.failed_cities
                   = Len(batch[b].cities)

\* a finished batch whose first fetch was answered 200 with a JSON number and
\* returned the tag unexpected, and whose second was answered 200 with a body
\* that is not JSON
C11_Witness ==
    /\ Done(1)
    /\ batch[1].cities = <<"London", "NotACityXYZ123">>
    /\ task[<<1, 1>>].response = Some(Answer(200, JsonScalar(7)))
    /\ task[<<1, 1>>].result
          = Some(<<"London", Some(ErrorDict("unexpected",
                                            <<"Unexpected error: ", "TypeError">>))>>)
    /\ task[<<1, 2>>].response = Some(Answer(200, NotJson))
    /\ task[<<1, 2>>].result[1][1] = "NotACityXYZ123"
    /\ batch[1].response.failed_cities = 2

\* C12: the request ids of the process_weather_request calls, one after the other
\* or concurrent, are pairwise distinct: no two calls in progress or finished
\* hold the same id, no two records of recent_requests share a request_id, a
\* finished call's response carries the id of exactly one record, and a call
\* still collecting has no record yet.
C12_UniqueRequestIds ==
    /\ \A a, b \in Slots :
          (a # b /\ batch[a].pc # "idle" /\ batch[b].pc # "idle")
          => batch[a].request_id # batch[b].request_id
    /\ \A i, k \in 1..Len(recent_requests) :
          i # k => recent_requests[i].request_id # recent_requests[k].request_id
    /\ \A b \in Slots :
          /\ Done(b) =>
                /\ batch[b].response.request_id = batch[b].request_id
                /\ Cardinality({k \in 1..Len(recent_requests) :
                       recent_requests[k].request_id = batch[b].request_id}) = 1
          /\ batch[b].pc = "collect" =>
                \A k \in 1..Len(recent_requests) :
                   recent_requests[k].request_id # batch[b].request_id

\* two concurrent calls are finished with different ids: the one that drew its
\* id first pushed its record last
C12_Witness ==
    /\ Done(1) /\ Done(2)
    /\ Len(recent_requests) = 2
    /\ batch[1].response.request_id < batch[2].response.request_id
    /\ recent_requests[1].request_id = batch[2].response.request_id
    /\ recent_requests[2].request_id = batch[1].response.request_id

\* C13: within one process_weather_request call, at every moment at most
\* MAX_CONCURRENT_REQUESTS of its fetch tasks are running (waiting for or holding
\* the rate limiter's lock, in the HTTP call, or storing), however many cities
\* the batch has; the others are still queued or have returned.
C13_PoolWidth ==
    \A b \in Slots :
       /\ Cardinality(Running(b)) <= MAX_CONCURRENT_REQUESTS
       /\ Cardinality({i \in Indexes :
             task[<<b, i>>].pc \in {"acquire", "locked", "http", "select", "write",
                                    "weather"}}) <= MAX_CONCURRENT_REQUESTS

\* a batch of more cities than the pool has workers: every worker is busy, one
\* of them storing, and a task is still queued
C13_Witness ==
    /\ batch[1].pc = "collect"
    /\ Len(batch[1].cities) > MAX_CONCURRENT_REQUESTS
    /\ Cardinality(Running(1)) = MAX_CONCURRENT_REQUESTS
    /\ task[<<1, 1>>].pc = "weather"
    /\ task[<<1, 2>>].pc = "acquire"
    /\ task[<<1, 3>>].pc = "queued"

\* C14: /get-recent-data answers 404 when recent_requests is empty and when the
\* last record of recent_requests lists no city; any other answer is made from
\* that last record: a success carries its request_id and its requested_at, and
\* views only of names listed in it, whatever older records hold.
C14_FetchRecent ==
    [][(reply' # reply /\ reply'.op = "get-recent-data")
       => LET n == Len(recent_requests) IN
          /\ n = 0 => reply'.status = 404
          /\ (n > 0 /\ recent_requests[n].cities = <<>>) => reply'.status = 404
          /\ reply'.status \in {200, 404, 500}
          /\ reply'.status = 200 =>
                /\ n > 0
                /\ reply'.request_id = recent_requests[n].request_id
                /\ reply'.requested_at = Some(recent_requests[n].requested_at)
                /\ reply'.data # <<>>
                /\ \A k \in 1..Len(reply'.data) :
                      Requested(recent_requests[n].cities,
                                reply'.data[k].location.name)]_vars

\* London succeeded and was stored in an earlier batch, the batch recorded last
\* had no success, and the query answered not found
C14_Witness ==
    /\ Len(recent_requests) = 2
    /\ recent_requests[1].cities = <<"London">>
    /\ recent_requests[2].cities = <<>>
    /\ \E l \in locations, w \in weather : l.name = Some("London") /\ w.location_id = l.id
    /\ reply.op = "get-recent-data"
    /\ reply.status = 404
    /\ reply.error = "No successful cities in recent request"

\* the entries of a city list that are names: strs that are non-empty after
\* trimming, each without its outer whitespace, in the order of the list
IsName(e) == "text" \in DOMAIN e /\ e.text # ""
NamesOf(body) ==
    IF body.cities # Null /\ "list" \in DOMAIN body.cities[1]
    THEN LET names == SelectSeq(body.cities[1].list, IsName)
         IN [i \in 1..Len(names) |-> names[i].text]
    ELSE <<>>

\* the city list is missing or empty, is not a list, holds no name, or holds
\* more than 20 names
MustReject(body) ==
    \/ body.cities = Null
    \/ body.cities[1] \in {JList(<<>>), JOther(FALSE)}
    \/ "list" \notin DOMAIN body.cities[1]
    \/ Len(NamesOf(body)) = 0
    \/ Len(NamesOf(body)) > 20

WellFormed(body) == body.is_json /\ body.is_object

C15_State ==
    \A body \in RequestBodies :
       /\ (~ WellFormed(body) \/ MustReject(body))
          => /\ Validate(body).status # 200
             /\ Validate(body).clean_cities = <<>>
       /\ (WellFormed(body) /\ ~ MustReject(body))
          => /\ Validate(body).status = 200
             /\ Validate(body).clean_cities = NamesOf(body)
             /\ Len(Validate(body).clean_cities) <= 20

C15_Step ==
    /\ (reply' # reply /\ reply'.op = "process-weather")
       => /\ reply'.status # 200
          /\ ~ reply'.success
          /\ UNCHANGED <<rl_vars, recent_requests, db_vars, task, batch, uuid_seq>>
    /\ \A b \in Slots :
          (batch[b].pc = "idle" /\ batch'[b].pc = "collect")
          => /\ \E body \in RequestBodies :
                   /\ WellFormed(body) /\ ~ MustReject(body)
                   /\ batch'[b].cities = NamesOf(body)
             /\ Len(batch'[b].cities) \in 1..20
             /\ \A i \in 1..Len(batch'[b].cities) :
                   /\ batch'[b].cities[i] # ""
                   /\ task'[<<b, i>>].city = batch'[b].cities[i]

\* C15: /process-weather rejects a request whose city list is missing or empty,
\* is not a list, holds no str that is non-empty after trimming, or holds more
\* than 20 such names, and a rejection draws no id, submits no task, pushes no
\* record and leaves the store alone; an accepted request hands
\* process_weather_request the trimmed non-empty names, in order, at most 20.
C15_Validation == []C15_State /\ [][C15_Step]_vars

\* a list of 21 names was rejected, and then a list of two padded names, a
\* blank str and a number was accepted as its two trimmed names
C15_Witness ==
    /\ reply.op = "process-weather"
    /\ reply.status = 400
    /\ reply.error = "Too many cities requested (max 20)"
    /\ batch[1].pc = "collect"
    /\ batch[1].cities = <<"London", "NotACityXYZ123">>
    /\ uuid_seq = 1
    /\ task[<<1, 2>>].city = "NotACityXYZ123"

\* the name has a stored reading
HasReading(name) ==
    \E l \in locations : l.name = Some(name) /\ \E w \in weather : w.location_id = l.id

\* the views of a reply that carry the name
ViewsOf(data, name) == {k \in 1..Len(data) : data[k].location.name = Some(name)}

\* C16: /get-data-by-cities with a non-empty list of names, submitted before or
\* not, answers success with exactly one view for each listed name that has a
\* stored reading and none for a name that has none; when no listed name has a
\* stored reading the answer is a success with an empty list.
C16_DataByCities ==
    [][(/\ reply' # reply
        /\ reply'.op = "get-data-by-cities"
        /\ Len(reply'.cities) > 0)
       => /\ reply'.status = 200
          /\ reply'.success
          /\ reply'.cities_count = Len(reply'.data)
          /\ \A i \in 1..Len(reply'.cities) :
                Cardinality(ViewsOf(reply'.data, reply'.cities[i]))
                   = IF HasReading(reply'.cities[i]) THEN 1 ELSE 0
          /\ \A k \in 1..Len(reply'.data) :
                Requested(reply'.cities, reply'.data[k].location.name)]_vars

\* the distinct requested names that have a stored reading
PresentNames(cities) == {cities[i] : i \in {k \in 1..Len(cities) : HasReading(cities[k])}}

\* C17: get_recent_weather_data over several names that have a stored reading
\* returns exactly one view per distinct requested name that has one:
\* as many views as such names, and for each name the view of the row met first
\* in (last_updated_epoch desc, created_at desc) order.
C17_OneViewPerCity ==
    [][(/\ reply' # reply
        /\ reply'.op = "get-data-by-cities"
        /\ Cardinality(PresentNames(reply'.cities)) >= 2)
       => /\ Len(reply'.data) = Cardinality(PresentNames(reply'.cities))
          /\ \A name \in PresentNames(reply'.cities) :
                LET mine == {j \in Joined(locations, weather, reply'.cities) :
                               j.l.name = Some(name)}
                IN /\ Cardinality(ViewsOf(reply'.data, name)) = 1
                   /\ \A k \in ViewsOf(reply'.data, name) :
                         \E j \in mine : /\ reply'.data[k] = WeatherItem(j)
                                          /\ \A o \in mine : AtLeastAsRecent(j, o)]_vars

\* C18: when /get-recent-data is asked right after a batch has finished, for
\* every city of that batch that succeeded and whose reading was stored the
\* answer is a success holding a view of the location row the fetch stored the
\* reading under, whatever name the provider reported for the city.
C18_RecentFindsStored ==
    [][(reply' # reply /\ reply'.op = "get-recent-data")
       => \A b \in Slots :
            (/\ Done(b)
             /\ recent_requests # <<>>
             /\ Latest(recent_requests).request_id = batch[b].request_id)
            => \A i \in 1..Len(batch[b].cities) :
                 (Succeeded(b, i) /\ task[<<b, i>>].weather_id # Null)
                 => /\ reply'.status = 200
                    /\ \E l \in locations :
                          /\ Some(l.id) = task[<<b, i>>].location_id
                          /\ ViewsOf(reply'.data, l.name[1]) # {}]_vars

C19_State ==
    \A r, q \in locations :
       (r.name = q.name /\ r.country = q.country /\ r.region = q.region) => r = q

C19_Step ==
    \A t \in Tasks :
       (/\ task[t].pc = "write"
        /\ task'[t].pc # "write"
        /\ task[t].existing = Null
        /\ \E r \in locations : SameIdentity(r, task[t].data[1].location))
       => /\ locations' = locations
          /\ task'[t].db_error
          /\ task'[t].location_id = Null
          /\ task'[t].result = Some(<<task[t].city, task[t].data>>)

\* C19: two insert_or_get_location calls running concurrently for one identity
\* (name, country, region) that is not stored yet never leave two rows of that
\* identity: the call whose INSERT comes second, its SELECT having found nothing,
\* adds no row and raises, and its fetch swallows the exception and returns the
\* payload.
C19_ConcurrentUpsert == []C19_State /\ [][C19_Step]_vars

\* a fetch task of batch b is still queued or running
StillRunning(b) ==
    \E i \in 1..Len(batch[b].cities) : task[<<b, i>>].pc # "done"

\* the ids a reply of /recent-requests or /get-recent-data shows
RepliedIds ==
    IF reply.op = "recent-requests"
    THEN {reply.requests[k].request_id : k \in 1..Len(reply.requests)}
    ELSE IF reply.op = "get-recent-data" /\ reply.status = 200
    THEN {reply.request_id}
    ELSE {}

\* the weather row was stored by a task of a batch that is still running
StoredByRunning(id) ==
    \E b \in Slots :
       /\ batch[b].pc = "collect"
       /\ StillRunning(b)
       /\ \E i \in 1..Len(batch[b].cities) : task[<<b, i>>].weather_id = Some(id)

\* C20 as amended: the record of a batch is pushed and its response built only
\* after every fetch task of the batch has completed: a finished batch has all
\* its tasks done and collected and exactly one record, and while a batch is
\* still collecting it has no record, no response, and no reply of
\* /recent-requests or /get-recent-data shows its request_id.
C20_RecordAfterAllTasks ==
    \A b \in Slots :
       /\ Done(b) =>
             /\ ~ StillRunning(b)
             /\ batch[b].collected = 1..Len(batch[b].cities)
             /\ Cardinality({k \in 1..Len(recent_requests) :
                    recent_requests[k].request_id = batch[b].request_id}) = 1
       /\ batch[b].pc = "collect" =>
             /\ \A k \in 1..Len(recent_requests) :
                   recent_requests[k].request_id # batch[b].request_id
             /\ batch[b].response = NoResponse
             /\ batch[b].request_id \notin RepliedIds

\* C20 as claimed: moreover no answer of /get-recent-data holds a view that only
\* a reading stored by a batch with a task still running accounts for.
C20_AsClaimed ==
    [][(reply' # reply /\ reply'.op = "get-recent-data" /\ reply'.status = 200)
       => \A k \in 1..Len(reply'.data) :
            \E l \in locations, w \in weather :
               /\ l.id = w.location_id
               /\ WeatherItem([l |-> l, w |-> w]) = reply'.data[k]
               /\ ~ StoredByRunning(w.id)]_vars

\* the first batch is recorded with London although its storage step failed;
\* the second batch has stored London and its other fetch is not done, it has
\* no record, and /get-recent-data has answered for the first batch
C20_Witness ==
    /\ batch[1].pc = "collect"
    /\ batch[1].request_id = 2
    /\ task[<<1, 1>>].weather_id # Null
    /\ task[<<1, 2>>].pc \in {"acquire", "locked", "http"}
    /\ Len(recent_requests) = 1
    /\ recent_requests[1].cities = <<"London">>
    /\ reply.op = "get-recent-data"
    /\ reply.status = 200
    /\ reply.request_id = 1
    /\ Cardinality(weather) = 1

\* C21: under fair scheduling every thread that enters the rate limiter is
\* eventually granted and every batch eventually returns with its record in
\* the buffer; while a batch is open some thread can always step; and the step
\* that pushes to the buffer under recent_requests_lock is never a step of a
\* thread holding request_lock, nor does it touch that lock
InLimiter(t) == task[t].pc \in {"acquire", "locked"}

RecordPushed(b) ==
    \E k \in 1..Len(recent_requests) :
        recent_requests[k].request_id = batch[b].request_id

Progress ==
    \/ \E t \in Tasks : Start(t) \/ Acquire(t) \/ Granted(t) \/ StorageStep(t)
    \/ Tick(FALSE)
    \/ \E t \in Tasks : \E resp \in LiveAnswers(task[t].city) : Http(t, resp)
    \/ \E b \in Slots, i \in Indexes : Collect(b, i)
    \/ \E b \in Slots : Record(b) \/ Return(b)

C21_NoDeadlock ==
    /\ (\E b \in Slots : batch[b].pc # "idle") => ENABLED Progress
    /\ \A t \in Tasks : request_lock = Some(t) <=> task[t].pc = "locked"

C21_LocksApart ==
    recent_requests' # recent_requests
        => /\ request_lock = Null \/ (\E t \in Tasks : request_lock = Some(t)
                                        /\ task'[t] = task[t])
           /\ request_lock' = request_lock

C21_Liveness ==
    /\ []C21_NoDeadlock
    /\ [][C21_LocksApart]_vars
    /\ \A t \in Tasks : t[1] = 1 => (InLimiter(t) ~> (task[t].grant # Null))
    /\ (batch[1].pc = "collect") ~> (Done(1) /\ RecordPushed(1))

\* two workers of a batch are in the limiter, one sleeping with request_lock
\* held and the other waiting for it
C21_Witness ==
    \E t, u \in Tasks :
        /\ Sleeping(t)
        /\ task[u].pc = "acquire"

\* C22: a batch has exactly one fetch task per entry of its input list, the k-th
\* task for the k-th entry, duplicates included; a task passes the rate limiter
\* once and calls the provider once, after its grant: every grant in the log is
\* the grant of one task, a grant and an answer once taken are never replaced
\* while the batch is open, and when the batch is done each of its entries has
\* one grant and one answer, so the calls of the batch number len(input).
Dispatched(b) == {i \in Indexes : task[<<b, i>>].pc # "none"}

C22_State ==
    \A b \in Slots :
        batch[b].pc # "idle" =>
            /\ Dispatched(b) = 1..Len(batch[b].cities)
            /\ \A i \in Dispatched(b) :
                  /\ task[<<b, i>>].city = batch[b].cities[i]
                  /\ task[<<b, i>>].response # Null => task[<<b, i>>].grant # Null
                  /\ (task[<<b, i>>].grant # Null /\ task[<<b, i>>].response = Null)
                         <=> task[<<b, i>>].pc = "http"
                  /\ Done(b) => task[<<b, i>>].response # Null

C22_Step ==
    /\ Len(grant_log') - Len(grant_log)
          = Cardinality({t \in Tasks : task[t].grant = Null /\ task'[t].grant # Null})
    /\ \A t \in Tasks :
          batch'[t[1]].pc # "idle" =>
              /\ task[t].grant # Null => task'[t].grant = task[t].grant
              /\ task[t].response # Null => task'[t].response = task[t].response
              /\ task[t].pc # "none" => task'[t].city = task[t].city

C22_NoDedupNoRetry == []C22_State /\ [][C22_Step]_vars

\* a batch naming London twice is done: two tasks, two grants at two different
\* times, two answers
C22_Witness ==
    /\ Done(1)
    /\ batch[1].cities = <<"London", "London">>
    /\ task[<<1, 1>>].response # Null
    /\ task[<<1, 2>>].response # Null
    /\ task[<<1, 1>>].grant # task[<<1, 2>>].grant

\* C23: with batches running concurrently, a step that changes recent_requests
\* appends one record at the tail, the record of a batch that finishes in that
\* step, and leaves the records already there as they were and in their order
\* (the oldest one leaves when the buffer is full); so the buffer is in the
\* order of finishing, whatever the order of submission, and a successful
\* /get-recent-data answers with the id of the batch that finished last.
FinishesIn(b, r) ==
    /\ batch[b].pc = "collect"
    /\ batch'[b].pc = "done"
    /\ r.request_id = batch[b].request_id

Kept(q) == IF Len(q) >= RECENT_MAXLEN THEN Tail(q) ELSE q

C23_Push ==
    recent_requests' # recent_requests =>
        LET n == Len(recent_requests') IN
        /\ n > 0
        /\ SubSeq(recent_requests', 1, n - 1) = Kept(recent_requests)
        /\ \E b \in Slots : FinishesIn(b, recent_requests'[n])

C23_Read ==
    (reply' # reply /\ reply'.op = "get-recent-data" /\ reply'.status = 200) =>
        /\ recent_requests # <<>>
        /\ reply'.request_id = recent_requests[Len(recent_requests)].request_id
        /\ \A b \in Slots :
              Done(b) => \E k \in 1..Len(recent_requests) :
                            recent_requests[k].request_id = batch[b].request_id

C23_BufferOrder == [][C23_Push /\ C23_Read]_vars

\* the batch submitted first finished last: its record is behind the record of
\* the batch submitted after it, and /get-recent-data answered with its id
C23_Witness ==
    /\ Len(recent_requests) = 2
    /\ recent_requests[1].request_id > recent_requests[2].request_id
    /\ reply.op = "get-recent-data"
    /\ reply.status = 200
    /\ reply.request_id = recent_requests[2].request_id
    /\ Done(1) /\ Done(2)

\* C24: a finished batch, with or without a success, has exactly one record in
\* recent_requests; the record carries the request_id of the response, its
\* cities are the names of the entries counted as succeeded, as often as they
\* were counted, so their number is the response's successful_cities, and a
\* batch without a success is recorded with an empty list; a batch still
\* collecting has no record, and each step adds at most one record.
Counted(b, i) ==
    /\ task[<<b, i>>].result # Null
    /\ task[<<b, i>>].result[1][2] # Null
    /\ ~ Contains(task[<<b, i>>].result[1][2][1], "error")

RecordsOf(b) ==
    {k \in 1..Len(recent_requests) :
        recent_requests[k].request_id = batch[b].request_id}

C24_State ==
    \A b \in Slots :
       /\ batch[b].pc = "collect" => RecordsOf(b) = {}
       /\ Done(b) =>
             /\ Cardinality(RecordsOf(b)) = 1
             /\ \A k \in RecordsOf(b) :
                   LET record == recent_requests[k] IN
                   /\ record.request_id = batch[b].response.request_id
                   /\ Len(record.cities) = batch[b].response.successful_cities
                   /\ Len(record.cities)
                         = Cardinality({i \in 1..Len(batch[b].cities) : Counted(b, i)})
                   /\ \A c \in Cities :
                         Count(record.cities, c)
                            = Cardinality({i \in 1..Len(batch[b].cities) :
                                   Counted(b, i) /\ task[<<b, i>>].result[1][1] = c})
                   /\ batch[b].response.successful_cities = 0 => record.cities = <<>>

C24_Step == Len(recent_requests') <= Len(recent_requests) + 1

C24_OneRecordPerBatch == []C24_State /\ [][C24_Step]_vars

\* a batch without any success is done and is recorded with an empty list, after
\* a batch recorded with the city it fetched
C24_Witness ==
    /\ Done(1)
    /\ Len(recent_requests) = 2
    /\ recent_requests[1].cities = <<"London">>
    /\ recent_requests[2].cities = <<>>
    /\ recent_requests[2].request_id = batch[1].response.request_id
    /\ batch[1].response.successful_cities = 0
    /\ batch[1].response.failed_cities = 1

\* C25: no step of the pipeline or of the query endpoints removes or changes a
\* weather row or removes a locations row: every weather row of before is a row
\* of after, unchanged, every location id of before is an id of after with the
\* same name, region and country, and a query step leaves both tables as they
\* are.
LocationIds(locs) == {l.id : l \in locs}

Identity(l) == <<l.id, l.name, l.region, l.country, l.created_at>>

C25_Step ==
    /\ weather \subseteq weather'
    /\ {Identity(l) : l \in locations} \subseteq {Identity(l) : l \in locations'}
    /\ LocationIds(locations) \subseteq LocationIds(locations')
    /\ Cardinality(locations') >= Cardinality(locations)
    /\ reply' # reply => UNCHANGED db_vars

C25_AppendOnly == [][C25_Step]_vars

\* a location was updated in place by a later fetch and has two readings, the
\* first of them still stored next to the second
C25_Witness ==
    \E l \in locations :
        /\ l.updated_at > l.created_at
        /\ \E w1, w2 \in weather :
              /\ w1.location_id = l.id
              /\ w2.location_id = l.id
              /\ w1.id < w2.id
              /\ w1.created_at < w2.created_at

\* C26: every weather row references a locations row; a fetch is about to call
\* insert_weather_data only with the id insert_or_get_location returned, which is
\* the id of a committed row carrying the payload's location name; a weather
\* row is added only by such a fetch and with that id; and a fetch whose
\* insert_or_get_location raised has a storage error and no weather row.
C26_State ==
    /\ \A w \in weather : \E l \in locations : l.id = w.location_id
    /\ \A t \in Tasks :
          /\ task[t].pc = "weather" =>
                /\ task[t].location_id # Null
                /\ task[t].db_error = FALSE
                /\ \E l \in locations :
                      /\ l.id = task[t].location_id[1]
                      /\ l.name = Get(task[t].data[1].location, "name")
          /\ (task[t].db_error /\ task[t].location_id = Null) => task[t].weather_id = Null
          /\ task[t].weather_id # Null =>
                \E w \in weather : /\ w.id = task[t].weather_id[1]
                                   /\ Some(w.location_id) = task[t].location_id

C26_Step ==
    weather' # weather =>
        \E t \in Tasks :
            /\ task[t].pc = "weather"
            /\ weather' \ weather
                  = {NewWeather(weather_id_seq + 1, task[t].location_id[1],
                                task[t].data[1], clock)}

C26_ForeignKey == []C26_State /\ [][C26_Step]_vars

\* one fetch stored a reading under the id of its location, and another fetch's
\* upsert raised: it ended with a storage error, without an id and without a row
C26_Witness ==
    /\ weather # {}
    /\ \E t \in Tasks :
          /\ task[t].pc = "done"
          /\ task[t].db_error
          /\ task[t].data # Null
          /\ JsonKind(task[t].data[1]) = "object"
          /\ task[t].location_id = Null
    /\ \E t \in Tasks : task[t].weather_id # Null

\* C27: a storage operation of a fetch works on a connection of its own, opened
\* by that operation; a connection is open only while its operation runs, at
\* most one per fetch, and every operation that has returned or raised has left
\* its connection closed, the close being the last thing done on it; an
\* operation that raised after connecting rolled back just before the close and
\* never committed, and its step left the tables as they were; one that returned
\* committed once before the close.
IsOpen(c) == c # <<>> /\ c[Len(c)] # "close"

Has(c, e) == \E k \in 1..Len(c) : c[k] = e

ClosedAfterCommit == <<"connect", "commit", "close">>

ClosedAfterRollback == <<"connect", "rollback", "close">>

C27_State ==
    \A t \in Tasks :
        LET c == task[t].conn IN
        /\ IsOpen(c) <=> task[t].pc = "write"
        /\ IsOpen(c) => c = Connect
        /\ task[t].pc \in {"weather", "done"} =>
              c \in {<<>>, ClosedAfterCommit, ClosedAfterRollback}
        /\ task[t].pc = "weather" => c = ClosedAfterCommit
        /\ task[t].weather_id # Null => c = ClosedAfterCommit
        /\ Has(c, "rollback") => task[t].db_error /\ ~ Has(c, "commit")
        /\ (task[t].db_error /\ JsonKind(task[t].data[1]) = "object")
              => ~ Has(c, "commit")

C27_Step ==
    \A t \in Tasks :
        (~ task[t].db_error /\ task'[t].db_error) =>
            /\ locations' = locations
            /\ weather' = weather
            /\ ~ IsOpen(task'[t].conn)
            /\ IsOpen(task[t].conn) => task'[t].conn = ClosedAfterRollback

C27_ConnectionDiscipline == []C27_State /\ [][C27_Step]_vars

\* an upsert raised on its open connection, which was rolled back and closed,
\* while another fetch of the batch stored its reading on connections that
\* were committed and closed
C27_Witness ==
    \E t, u \in Tasks :
        /\ task[t].pc = "done"
        /\ task[t].db_error
        /\ task[t].existing # Null
        /\ task[t].conn = ClosedAfterRollback
        /\ task[u].weather_id # Null
        /\ task[u].conn = ClosedAfterCommit

\* C28: every view that a query endpoint returns is the view of a stored reading
\* of that name and observation time whose decimal fields it shows as stored:
\* lat, lon, temp_c and uv are null in the view exactly when they are null in
\* the row, so a stored 0 is shown as 0.
NullAlike(shown, stored) == (shown = Null) <=> (stored = Null)

C28_NullExactlyWhenStoredNull ==
    [][(reply' # reply /\ reply'.op = "get-data-by-cities" /\ reply'.status = 200)
       => \A k \in 1..Len(reply'.data) :
             LET view == reply'.data[k] IN
             \E l \in locations, w \in weather :
                /\ w.location_id = l.id
                /\ l.name = view.location.name
                /\ w.last_updated_epoch = view.current.last_updated_epoch
                /\ NullAlike(view.location.lat, l.lat)
                /\ NullAlike(view.location.lon, l.lon)
                /\ NullAlike(view.current.temp_c, w.temp_c)
                /\ NullAlike(view.current.uv, w.uv)]_vars

\* C29: when a batch is done, every entry whose fetch wrote to storage (its
\* upsert returned an id or its reading was inserted) is counted as succeeded;
\* an entry counted as failed has no location id and no weather row of its own.
WroteToStorage(b, i) ==
    task[<<b, i>>].location_id # Null \/ task[<<b, i>>].weather_id # Null

C29_StoredIsCounted ==
    \A b \in Slots :
        Done(b) => \A i \in 1..Len(batch[b].cities) :
                      WroteToStorage(b, i) => Counted(b, i)

\* C30: insert_weather_data runs on a connection of its own after the upsert's
\* connection was committed and closed; in the step in which it fails, the
\* locations table stays as the upsert left it, with the row of the returned
\* id, no weather row is added, and the fetch returns (city, payload), not an
\* error outcome; afterwards the fetch has a location id and no weather id, and
\* the batch counts it as succeeded unless the payload itself has an error key.
AppendFailed(t) ==
    task[t].pc = "done" /\ task[t].db_error /\ task[t].location_id # Null

C30_State ==
    /\ \A t \in Tasks :
          AppendFailed(t) =>
             /\ task[t].weather_id = Null
             /\ \E l \in locations : l.id = task[t].location_id[1]
             /\ task[t].result = Some(<<task[t].city, task[t].data>>)
             /\ task[t].conn \in {<<>>, ClosedAfterRollback}
    /\ \A b \in Slots :
          Done(b) => \A i \in 1..Len(batch[b].cities) :
             (AppendFailed(<<b, i>>) /\ ~ Contains(task[<<b, i>>].data[1], "error"))
                => /\ Counted(b, i)
                   /\ Count(batch[b].successful_cities, batch[b].cities[i]) >= 1

C30_Step ==
    \A t \in Tasks :
        (task[t].pc = "weather" /\ task'[t].pc = "done" /\ task'[t].db_error) =>
            /\ task[t].conn = ClosedAfterCommit
            /\ locations' = locations
            /\ weather' = weather
            /\ AppendFailed(t)'

C30_SeparateTransactions == []C30_State /\ [][C30_Step]_vars

\* a finished batch whose upsert inserted the location and whose insert of the
\* reading failed on its own connection: the location is stored without any
\* reading, and the city is counted as succeeded
C30_Witness ==
    /\ Done(1)
    /\ AppendFailed(<<1, 1>>)
    /\ task[<<1, 1>>].existing = Null
    /\ task[<<1, 1>>].conn = ClosedAfterRollback
    /\ Cardinality(locations) = 1
    /\ weather = {}
    /\ batch[1].response.successful_cities = 1
    /\ batch[1].response.failed_cities = 0

====
